---- MODULE Spec2Model ----
(***************************************************************************)
(* Model of the incremental compilation database of src/src/query.rs:      *)
(* the shared State (inline modules, code map, extern globals), the query  *)
(* group Compilation with its derived queries, cycle recovery, and the     *)
(* rooting discipline of cached globals.                                   *)
(*                                                                         *)
(* Strings that the code inspects character by character (module names,    *)
(* query keys handed to recover_cycle) are sequences of one-character      *)
(* strings.                                                                *)
(***************************************************************************)
EXTENDS Integers, Sequences, FiniteSets, TLC

\* ------------------------------------------------------------------------
\* Bounds of the model
\* ------------------------------------------------------------------------
\* Highest revision the query engine may reach (every input write and every
\* invalidation bumps the revision).
MaxRev == 3

\* Longest list of keys handed to recover_cycle in the pure-function check.
MaxCycleLen == 2

\* ------------------------------------------------------------------------
\* Strings
\* ------------------------------------------------------------------------
Quote == "\""

ImportStr == <<"i", "m", "p", "o", "r", "t">>

\* str::contains(pat)
Contains(s, pat) ==
    \E i \in 0..(Len(s) - Len(pat)) : SubSeq(s, i + 1, i + Len(pat)) = pat

\* str::starts_with('@')
StartsWithAt(s) == Len(s) > 0 /\ s[1] = "@"

\* str::trim_matches(|c| c != '"'): drops every leading and every trailing
\* character that is not a quote.
TrimNonQuote(s) ==
    LET qs == {i \in 1..Len(s) : s[i] = Quote}
    IN  IF qs = {} THEN <<>>
        ELSE LET lo == CHOOSE i \in qs : \A j \in qs : i <= j
                 hi == CHOOSE i \in qs : \A j \in qs : j <= i
             IN  SubSeq(s, lo, hi)

\* str::trim_matches('"'): drops every leading and every trailing quote.
TrimQuote(s) ==
    LET ns == {i \in 1..Len(s) : s[i] # Quote}
    IN  IF ns = {} THEN <<>>
        ELSE LET lo == CHOOSE i \in ns : \A j \in ns : i <= j
                 hi == CHOOSE i \in ns : \A j \in ns : j <= i
             IN  SubSeq(s, lo, hi)

\* str::trim_start_matches('@'): drops every leading '@'.
TrimStartAt(s) ==
    LET ns == {i \in 1..Len(s) : s[i] # "@"}
    IN  IF ns = {} THEN <<>>
        ELSE LET lo == CHOOSE i \in ns : \A j \in ns : i <= j
             IN  SubSeq(s, lo, Len(s))

\* Iterator::filter over a sequence, keeping the order.
RECURSIVE SelectKeys(_, _)
SelectKeys(seq, keep) ==
    IF seq = <<>> THEN <<>>
    ELSE IF keep[Head(seq)] THEN <<Head(seq)>> \o SelectKeys(Tail(seq), keep)
         ELSE SelectKeys(Tail(seq), keep)

\* ------------------------------------------------------------------------
\* Module names and query keys
\* ------------------------------------------------------------------------
ModA == <<"a">>
ModB == <<"b">>
ModImp == ImportStr

Modules == {ModA, ModB, ModImp}

QExternModule == <<"e", "x", "t", "e", "r", "n", "_", "m", "o", "d", "u", "l", "e">>
QModuleText == <<"m", "o", "d", "u", "l", "e", "_", "t", "e", "x", "t">>
QTypechecked == <<"t", "y", "p", "e", "c", "h", "e", "c", "k", "e", "d", "_",
                  "m", "o", "d", "u", "l", "e">>
QCoreExpr == <<"c", "o", "r", "e", "_", "e", "x", "p", "r">>
QCompiled == <<"c", "o", "m", "p", "i", "l", "e", "d", "_", "m", "o", "d", "u", "l", "e">>
QImport == ImportStr
QGlobalInner == <<"g", "l", "o", "b", "a", "l", "_", "i", "n", "n", "e", "r">>

Queries == {"extern_module", "module_text", "typechecked_module", "core_expr",
            "compiled_module", "import", "global_inner"}

QueryName(q) ==
    CASE q = "extern_module" -> QExternModule
      [] q = "module_text" -> QModuleText
      [] q = "typechecked_module" -> QTypechecked
      [] q = "core_expr" -> QCoreExpr
      [] q = "compiled_module" -> QCompiled
      [] q = "import" -> QImport
      [] q = "global_inner" -> QGlobalInner

\* Queries keyed by (module, expected_type); the others are keyed by the
\* module name alone.
HasExpectedType(q) == q \in {"typechecked_module", "core_expr", "compiled_module"}

Key(q, m) == [q |-> q, m |-> m]
Keys == [q : Queries, m : Modules]

\* The text under which the engine hands a key to the recovery callback:
\* the query name followed by the Debug rendering of the key.
KeyString(k) ==
    IF HasExpectedType(k.q)
    THEN QueryName(k.q) \o <<"(", "(", Quote>> \o k.m
         \o <<Quote, ",", " ", "N", "o", "n", "e", ")", ")">>
    ELSE QueryName(k.q) \o <<"(", Quote>> \o k.m \o <<Quote, ")">>

\* ------------------------------------------------------------------------
\* Cycle recovery
\* ------------------------------------------------------------------------
Ok(v) == [ok |-> TRUE, v |-> v]
Err(e) == [ok |-> FALSE, err |-> e]

\* The closure of recover_cycle that reduces a key to a module name.
CycleEntryName(k) == TrimStartAt(TrimQuote(TrimNonQuote(k)))

recover_cycle(cycle, module) ==
    Err([kind |-> "CyclicDependency", module |-> module,
         cycle |-> LET kept == SelectKeys(cycle,
                                 [k \in {cycle[i] : i \in 1..Len(cycle)} |->
                                     Contains(k, ImportStr)])
                   IN  [i \in 1..Len(kept) |-> CycleEntryName(kept[i])]])

recover_cycle_expected_type(cycle, module) == recover_cycle(cycle, module)

\* A recovery that hands the partial result slot anything but None.
recover_cycle_typecheck_partial(cycle, module) ==
    LET r == recover_cycle(cycle, module)
    IN  [ok |-> FALSE, err |-> r.err, partial |-> "Some"]

\* map_err(|err| (None, err))
recover_cycle_typecheck(cycle, module) ==
    LET r == recover_cycle(cycle, module)
    IN  [ok |-> FALSE, err |-> r.err, partial |-> "None"]

\* ------------------------------------------------------------------------
\* Source texts, importer, VM values
\* ------------------------------------------------------------------------
\* A source text is what the external typechecker and VM make of it: the
\* module it imports (at most one), a literal, and whether it typechecks.
Lit(n) == [imp |-> <<>>, lit |-> n, ok |-> TRUE]
Imp(m) == [imp |-> <<m>>, lit |-> 0, ok |-> TRUE]
NoText == [imp |-> <<>>, lit |-> -1, ok |-> FALSE]

\* A source text that the typechecker rejects.
IllTyped == [imp |-> <<>>, lit |-> 0, ok |-> FALSE]

\* A source text that typechecks and that the bytecode compiler rejects, and
\* one whose thunk ends in a runtime error.
Uncompilable == [imp |-> <<>>, lit |-> 0, ok |-> TRUE, compiles |-> FALSE]
Raises == [imp |-> <<>>, lit |-> 0, ok |-> TRUE, raises |-> TRUE]
Compiles(text) == "compiles" \notin DOMAIN text
Returns(text) == "raises" \notin DOMAIN text

\* The importer resolves module b from disk; the other modules exist only
\* inline.
ResolvedSource == Lit(3)
get_module_source(use_standard_lib, module) ==
    IF module = ModB THEN Ok(ResolvedSource)
    ELSE Err([kind |-> "source-not-found", module |-> module])

\* Thread handles of the database instances (the root database and its
\* snapshots each carry one).
Threads == {"t1", "t2"}

\* A VM value with the thread handle it belongs to and whether it is
\* registered as a root there.
RootedValue(v, vm) == [val |-> v, thread |-> vm, rooted |-> TRUE]

\* Thread::root_value
root_value(vm, v) == RootedValue(v, vm)

\* RootedValue::clone registers a new root in the same thread.
rooted_clone(value) == [value EXCEPT !.rooted = TRUE]

\* RootedValue::vm_mut().unroot()
unroot(value) == [value EXCEPT !.rooted = FALSE]

\* UnrootedValue::clone
UnrootedValue_clone(self) == unroot(rooted_clone(self))

\* UnrootedValue::root_with
root_with(self, vm) == root_value(vm, self.val)

\* A conversion that forgets to root the value.
root_global_with_unrooted(global, vm) == global

root_global_with(global, vm) ==
    [id |-> global.id, typ |-> global.typ, metadata |-> global.metadata,
     value |-> root_with(global.value, vm)]

\* Where the data of a VM value lives: "thread" is the stack and young heap
\* of the thread that ran a thunk, "loader" what an extern loader built,
\* "host" what the host passed in, "managed" the global heap of the VM.
Heaps == {"thread", "loader", "host", "managed"}

\* Cloner::deep_clone copies the data, and everything it refers to, into the
\* managed heap of the VM.
RECURSIVE deep_clone(_)
deep_clone(v) ==
    [txt |-> v.txt,
     deps |-> [i \in 1..Len(v.deps) |-> deep_clone(v.deps[i])],
     heap |-> "managed"]

Symbol(m) == IF StartsWithAt(m) THEN m ELSE <<"@">> \o m

\* Names under which the host registers extern globals.
ExternNames == {<<"x">>}

DefaultSettings ==
    [use_standard_lib |-> TRUE, optimize |-> TRUE,
     emit_debug_info |-> FALSE, run_io |-> FALSE]

\* ------------------------------------------------------------------------
\* State (the mutex-guarded store)
\* ------------------------------------------------------------------------
\* code_map is the list of file maps; a BytePos is the position of a file
\* map in it; index_map holds 0 for a file without an entry.
NoFile == [name |-> <<>>, src |-> NoText]

State_get_filemap(st, file) ==
    IF st.index_map[file] = 0 THEN NoFile ELSE st.code_map[st.index_map[file]]

\* An add_filemap that keeps the file map a file already has, as
\* get_or_insert_filemap does.
State_add_filemap_keeps_first(st, file, source) ==
    IF st.index_map[file] # 0 THEN st
    ELSE [st EXCEPT !.code_map = Append(@, [name |-> file, src |-> source]),
                    !.index_map[file] = Len(st.code_map) + 1]

State_add_filemap(st, file, source) ==
    LET fm == State_get_filemap(st, file)
    IN  IF fm # NoFile /\ fm.src = source THEN st
        ELSE [st EXCEPT !.code_map = Append(@, [name |-> file, src |-> source]),
                        !.index_map[file] = Len(st.code_map) + 1]

\* ------------------------------------------------------------------------
\* Query engine: memo table, revisions, active-query stack
\* ------------------------------------------------------------------------
\* Inputs of the query group are dependencies next to the derived queries.
SettingsDep == [q |-> "compiler_settings", m |-> <<>>]
LoaderDep(m) == [q |-> "extern_loader", m |-> m]
ExternGlobalDep(n) == [q |-> "extern_global", m |-> n]

NoVal == Err([kind |-> "none"])
NoMemo ==
    [st |-> "none", hasv |-> FALSE, val |-> NoVal, ver |-> 0, chg |-> 0,
     inputs |-> <<>>, untracked |-> FALSE]

\* Storage of each query: #[salsa::dependencies] keeps the dependencies of
\* an entry but never its value; the other derived queries are memoized.
MemoizesValue(q) == q \notin {"extern_module", "module_text", "compiled_module"}

\* The recovery callback named by each query's #[salsa::cycle(..)].
Recover(k, cycle) ==
    CASE k.q = "typechecked_module" -> recover_cycle_typecheck(cycle, k.m)
      [] k.q \in {"core_expr", "compiled_module"} ->
            recover_cycle_expected_type(cycle, k.m)
      [] OTHER -> recover_cycle(cycle, k.m)

Frame(k) == [key |-> k, inputs |-> <<>>, untracked |-> FALSE, cycle |-> <<>>]

OnStack(s, k) == \E i \in 1..Len(s.stack) : s.stack[i].key = k

Push(s, k) == [s EXCEPT !.stack = Append(@, Frame(k))]
Pop(s) == [s EXCEPT !.stack = SubSeq(@, 1, Len(@) - 1)]
Top(s) == s.stack[Len(s.stack)]

\* Records a dependency of the query that is executing, if there is one.
ReportRead(s, dep) ==
    IF s.stack = <<>> THEN s
    ELSE LET n == Len(s.stack)
             f == s.stack[n]
         IN  IF \E i \in 1..Len(f.inputs) : f.inputs[i] = dep THEN s
             ELSE [s EXCEPT !.stack[n].inputs = Append(@, dep)]

\* Runtime::report_untracked_read
report_untracked_read(s) == [s EXCEPT !.stack[Len(s.stack)].untracked = TRUE]

\* Revision at which an input was last written.
InputChangedAt(s, dep) ==
    CASE dep.q = "compiler_settings" -> s.settings.chg
      [] dep.q = "extern_loader" -> s.loader[dep.m].chg
      [] dep.q = "extern_global" -> s.xglobal[dep.m].chg

\* The re-entered query and everything above it on the stack take part in
\* the cycle; each is told the list of participants.
MarkCycle(s, k) ==
    LET n == Len(s.stack)
        start == CHOOSE i \in 1..n : s.stack[i].key = k
        cycle == [i \in 1..(n - start + 1) |-> KeyString(s.stack[start + i - 1].key)]
    IN  [s |-> [s EXCEPT !.stack =
                   [i \in 1..n |-> IF i >= start
                                   THEN [s.stack[i] EXCEPT !.cycle = cycle]
                                   ELSE s.stack[i]],
                         !.marked = @ \cup {s.stack[i].key : i \in start..n}],
         cycle |-> cycle]

\* QueryTable::peek: the cached value, if the entry holds one; nothing is
\* computed and no dependency is recorded.
Peek(s, k) ==
    IF s.memo[k].st = "memo" /\ s.memo[k].hasv /\ ~OnStack(s, k)
    THEN [some |-> TRUE, val |-> s.memo[k].val]
    ELSE [some |-> FALSE, val |-> NoVal]

\* QueryTable::sweep with discard_values + sweep_all_revisions: drops the
\* value of every entry of the query, keeping its dependencies; an entry
\* that is being computed, or that read untracked state in the current
\* revision, is left alone.
Sweep(s, q) ==
    [s EXCEPT !.memo =
        [k \in Keys |->
            IF k.q = q /\ s.memo[k].st = "memo" /\ ~OnStack(s, k)
               /\ ~(s.memo[k].untracked /\ s.memo[k].ver = s.rev)
            THEN [s.memo[k] EXCEPT !.hasv = FALSE, !.val = NoVal]
            ELSE s.memo[k]]]

\* Appends an event to the log of what the current host call did.
LogEvent(s, ev) == [s EXCEPT !.log = Append(@, ev)]

\* A sweep that also discards the cached globals.
collect_garbage_with_globals(s) ==
    LogEvent(Sweep(Sweep(Sweep(Sweep(Sweep(s, "module_text"),
                                     "typechecked_module"),
                               "core_expr"), "compiled_module"), "global_inner"),
             [e |-> "collect_garbage"])

\* CompilerDatabase::collect_garbage
collect_garbage(s) ==
    LogEvent(Sweep(Sweep(Sweep(Sweep(s, "module_text"), "typechecked_module"),
                         "core_expr"), "compiled_module"),
             [e |-> "collect_garbage"])

\* ------------------------------------------------------------------------
\* Query functions and the engine's read path
\* ------------------------------------------------------------------------
\* Every operator below takes the database s (store, memo table, inputs,
\* active-query stack, thread handle) and returns the database after the
\* call together with the value returned.
RECURSIVE Read(_, _), Fetch(_, _), MaybeChangedSince(_, _, _),
          AnyInputChanged(_, _, _, _)

\* A call whose result is used more than once is written as an operator
\* that takes the result as a parameter (the let binding of the source).

\* The engine hands out clones of the globals it stores.
CachedGlobal(g) == [g EXCEPT !.value = UnrootedValue_clone(@)]

\* .and_then(|r| r.ok()).map(|global| root_global_with(global, thread))
peek_global_rooted(s, p) ==
    IF p.some /\ p.val.ok
    THEN [some |-> TRUE, v |-> root_global_with(CachedGlobal(p.val.v), s.vm)]
    ELSE [some |-> FALSE, v |-> NoVal]

\* CompilationBase::peek_global
peek_global(s, key) ==
    IF key \in Modules THEN peek_global_rooted(s, Peek(s, Key("global_inner", key)))
    ELSE [some |-> FALSE, v |-> NoVal]

get_extern_global(s, name) ==
    IF name \in s.state.extern_globals
    THEN [s |-> ReportRead(s, ExternGlobalDep(name)), some |-> TRUE,
          v |-> root_global_with(CachedGlobal(s.xglobal[name].val), s.vm)]
    ELSE [s |-> s, some |-> FALSE, v |-> NoVal]

\* An environment view that forces the module's global when nothing is
\* cached.
get_global_or_force_read(s, r) ==
    [s |-> r.s, some |-> r.val.ok,
     v |-> IF r.val.ok THEN root_global_with(CachedGlobal(r.val.v), s.vm)
           ELSE NoVal]

get_global_or_force(s, name, e) ==
    IF e.some THEN e
    ELSE IF TrimStartAt(name) \in Modules
    THEN get_global_or_force_read(s, Read(s, Key("global_inner", TrimStartAt(name))))
    ELSE [s |-> s, some |-> FALSE, v |-> NoVal]

\* .or_else(|| env.peek_global(module))
get_global_or_peek(s, name, e) ==
    IF e.some THEN e ELSE [s |-> s] @@ peek_global(s, TrimStartAt(name))

\* VmEnv::get_global for Env
Env_get_global(s, name) == get_global_or_peek(s, name, get_extern_global(s, name))

\* Symbol::is_global and Symbol::definition_name: a global symbol carries
\* a leading '@', which is not part of its definition name.
is_global(id) == StartsWithAt(id)
definition_name(id) == IF StartsWithAt(id) THEN SubSeq(id, 2, Len(id)) ELSE id

None(s) == [s |-> s, some |-> FALSE, v |-> NoVal]

\* Option::map on the result of a lookup.
MapGlobal(g, F(_)) ==
    [s |-> g.s, some |-> g.some, v |-> IF g.some THEN F(g.v) ELSE NoVal]

\* CompilationBase::peek_typechecked_module
peek_typechecked_module(s, key) ==
    IF key \in Modules /\ Peek(s, Key("typechecked_module", key)).some
       /\ Peek(s, Key("typechecked_module", key)).val.ok
    THEN [s |-> s, some |-> TRUE, v |-> Peek(s, Key("typechecked_module", key)).val.v]
    ELSE None(s)

\* CompilationBase::peek_core_expr
peek_core_expr(s, key) ==
    IF key \in Modules /\ Peek(s, Key("core_expr", key)).some
       /\ Peek(s, Key("core_expr", key)).val.ok
    THEN [s |-> s, some |-> TRUE, v |-> Peek(s, Key("core_expr", key)).val.v]
    ELSE None(s)

\* CompilerEnv::find_var for Env
Env_find_var(s, id) ==
    IF is_global(id)
    THEN MapGlobal(Env_get_global(s, definition_name(id)),
                   LAMBDA g : [var |-> g.id, typ |-> g.typ])
    ELSE MapGlobal(get_extern_global(s, definition_name(id)),
                   LAMBDA g : [var |-> g.id, typ |-> g.typ])

\* TypeEnv::find_type for Env
Env_find_type(s, id) ==
    IF is_global(id)
    THEN MapGlobal(Env_get_global(s, definition_name(id)), LAMBDA g : g.typ)
    ELSE MapGlobal(get_extern_global(s, definition_name(id)), LAMBDA g : g.typ)

\* TypeEnv::find_type_info for Env: looked up in the type infos of the VM's
\* global environment, which holds none of the modules of the model.
Env_find_type_info(s, id) == None(s)

\* KindEnv::find_kind for Env
Env_find_kind(s, id) ==
    IF is_global(id)
    THEN MapGlobal(Env_find_type_info(s, id), LAMBDA t : "Type")
    ELSE None(s)

\* MetadataEnv::get_metadata for Env
Env_get_metadata(s, id) ==
    IF is_global(id)
    THEN MapGlobal(peek_typechecked_module(s, definition_name(id)),
                   LAMBDA t : t.metadata)
    ELSE None(s)

\* OptimizeEnv::find_expr for Env
Env_find_expr(s, id) ==
    IF is_global(id) THEN peek_core_expr(s, definition_name(id)) ELSE None(s)

\* Name::module: the name without its last component.
NameModule(n) ==
    LET dots == {i \in 1..Len(n) : n[i] = "."}
    IN  IF dots = {} THEN <<>>
        ELSE SubSeq(n, 1, (CHOOSE i \in dots : \A j \in dots : j <= i) - 1)

RECURSIVE scoped_global_from(_, _, _)

\* The loop body of get_scoped_global after the lookup: break with the
\* global and the remaining fields, or go on with the enclosing module.
scoped_global_found(name, module, g) ==
    IF g.some
    THEN [s |-> g.s, some |-> TRUE, v |-> g.v,
          remaining |-> SubSeq(name,
                               (IF Len(name) < Len(module) + 1 THEN Len(name)
                                ELSE Len(module) + 1) + 1,
                               Len(name))]
    ELSE scoped_global_from(g.s, name, NameModule(module))

scoped_global_from(s, name, module) ==
    IF module = <<>>
    THEN [s |-> s, some |-> FALSE, v |-> NoVal, remaining |-> <<>>]
    ELSE scoped_global_found(name, module,
             get_global_or_peek(s, module, get_extern_global(s, name)))

\* CompilerDatabase::get_scoped_global
get_scoped_global(s, name) == scoped_global_from(s, name, TrimStartAt(name))

\* Name::components: the parts of a name between its dots.
RECURSIVE Components(_)
Components(n) ==
    IF n = <<>> THEN <<>>
    ELSE IF \E i \in 1..Len(n) : n[i] = "."
    THEN LET dot == CHOOSE i \in 1..Len(n) :
                        n[i] = "." /\ \A j \in 1..(i - 1) : n[j] # "."
         IN  <<SubSeq(n, 1, dot - 1)>> \o Components(SubSeq(n, dot + 1, Len(n)))
    ELSE <<n>>

\* Type::row_iter: the record type { f : Int } has the field f; Int has no
\* fields.
RecordType == "{ f : Int }"
row_iter(typ) ==
    IF typ = RecordType THEN <<[name |-> <<"f">>, typ |-> "Int"]>> ELSE <<>>

\* The loop of get_binding over the remaining fields, from the i-th on: the
\* field is looked up in the row of the current type, and the value steps to
\* the variant at the field's index.
RECURSIVE get_binding_walk(_, _, _, _, _)
get_binding_walk(vm, typ, value, fields, i) ==
    IF i > Len(fields) THEN Ok([value |-> root_value(vm, value), typ |-> typ])
    ELSE IF \E k \in 1..Len(row_iter(typ)) : row_iter(typ)[k].name = fields[i]
    THEN LET index == CHOOSE k \in 1..Len(row_iter(typ)) :
                          row_iter(typ)[k].name = fields[i]
         IN  get_binding_walk(vm, row_iter(typ)[index].typ, value.deps[index],
                              fields, i + 1)
    ELSE Err([kind |-> "UndefinedField", typ |-> typ, name |-> fields[i]])

\* get_binding after get_scoped_global
get_binding_fields(name, g) ==
    [s |-> g.s,
     val |-> IF g.some
             THEN IF g.remaining = <<>>
                  THEN Ok([value |-> g.v.value, typ |-> g.v.typ])
                  ELSE get_binding_walk(g.s.vm, g.v.typ, g.v.value.val,
                                        Components(g.remaining), 1)
             ELSE Err([kind |-> "UndefinedBinding", name |-> name])]

\* CompilerDatabase::get_binding
get_binding(s, name) == get_binding_fields(name, get_scoped_global(s, name))

\* A module_text that asks the importer first and falls back to the inline
\* entry.
module_text_importer_first(s, module) ==
    LET resolved == get_module_source(s.settings.val.use_standard_lib, module)
        opt == s.state.inline_modules[module]
    IN  IF resolved.ok THEN [s |-> ReportRead(s, SettingsDep), val |-> resolved]
        ELSE IF opt # NoText THEN [s |-> s, val |-> Ok(opt)]
        ELSE [s |-> ReportRead(s, SettingsDep), val |-> resolved]

\* report_synthetic_read(LOW) gives the entry the lowest durability: no new
\* revision leaves it valid unchecked.  Every entry of the model is checked
\* in every new revision, so the call changes nothing here.
module_text(s, module) ==
    LET opt == s.state.inline_modules[module]
    IN  IF opt # NoText THEN [s |-> s, val |-> Ok(opt)]
        ELSE [s |-> ReportRead(s, SettingsDep),
              val |-> get_module_source(s.settings.val.use_standard_lib, module)]

TypecheckValue(text, typ) == [expr |-> text, typ |-> typ, metadata |-> "metadata"]

\* The type of an expression that is an import!: the imported module's, or
\* the import's error next to the partial expression.
typecheck_import(text, r) ==
    [s |-> r.s,
     val |-> IF r.val.ok THEN Ok(TypecheckValue(text, r.val.v.typ))
             ELSE [ok |-> FALSE, partial |-> "Some", err |-> r.val.err]]

\* The external typechecker: registers the file map of the source, expands
\* import! through the import query and types the expression.
typecheck_expected(s, module, text) ==
    IF text.imp = <<>>
    THEN [s |-> [s EXCEPT !.state = State_add_filemap(@, module, text)],
          val |-> IF text.ok THEN Ok(TypecheckValue(text, "Int"))
                  ELSE [ok |-> FALSE, partial |-> "Some",
                        err |-> [kind |-> "typecheck", module |-> module]]]
    ELSE typecheck_import(text,
             Read([s EXCEPT !.state = State_add_filemap(@, module, text)],
                  Key("import", text.imp[1])))

\* typechecked_module after db.module_text(..).map_err(|err| (None, err))?
typechecked_module_text(module, text) ==
    IF text.val.ok
    THEN typecheck_expected(text.s, module, text.val.v)
    ELSE [s |-> text.s,
          val |-> [ok |-> FALSE, partial |-> "None", err |-> text.val.err]]

typechecked_module(s, module) ==
    typechecked_module_text(module,
        Read(report_untracked_read(s), Key("module_text", module)))

\* core_expr after db.typechecked_module(..).map_err(|(_, err)| err)?
core_expr_translate(s, value) ==
    IF value.val.ok
    THEN [s |-> ReportRead(value.s, SettingsDep),
          val |-> Ok([expr |-> value.val.v.expr,
                      optimized |-> s.settings.val.optimize])]
    ELSE [s |-> value.s, val |-> Err(value.val.err)]

core_expr(s, module) ==
    core_expr_translate(s,
        Read(report_untracked_read(s), Key("typechecked_module", module)))

\* compiled_module after db.core_expr(..)?
compiled_module_compile(module, core) ==
    IF core.val.ok
    THEN [s |-> ReportRead(core.s, SettingsDep),
          val |-> IF Compiles(core.val.v.expr)
                  THEN Ok([name |-> <<"@">> \o module, body |-> core.val.v.expr])
                  ELSE Err([kind |-> "compile", module |-> module])]
    ELSE [s |-> core.s, val |-> Err(core.val.err)]

compiled_module(s, module) ==
    compiled_module_compile(module, Read(s, Key("core_expr", module)))

\* The value of a module that imports another: built around the global g
\* that the environment view returns.
call_thunk_linked(s, closure, g) ==
    [s |-> g.s,
     val |-> IF g.some
             THEN Ok(RootedValue([txt |-> closure.body,
                                  deps |-> <<g.v.value.val>>,
                                  heap |-> "thread"], s.vm))
             ELSE Err([kind |-> "vm-runtime", module |-> closure.body.imp[1]])]

\* Thread::call_thunk_top on a module's thunk: the VM links the imported
\* global through the environment view and builds the module's value.
call_thunk_top(s, closure) ==
    IF closure.body.imp = <<>>
    THEN [s |-> s,
          val |-> IF Returns(closure.body)
                  THEN Ok(RootedValue([txt |-> closure.body, deps |-> <<>>,
                                       heap |-> "thread"], s.vm))
                  ELSE Err([kind |-> "vm-runtime",
                            module |-> definition_name(closure.name)])]
    ELSE call_thunk_linked(s, closure,
             Env_get_global(s, Symbol(closure.body.imp[1])))

\* compiler_pipeline::run_io on a module whose type is not an IO action.
run_io(vm, v) == v

\* The result r of an awaited call, with the call and whether it succeeded
\* appended to the log.
Awaited(r, e, m) ==
    [s |-> LogEvent(r.s, [e |-> e, m |-> m, ok |-> r.val.ok]), val |-> r.val]

\* global_inner, the extern-loader arm after db.extern_module(name)?
global_inner_extern(r) ==
    IF r.val.ok
    THEN [s |-> r.s,
          val |-> Ok([id |-> r.val.v.symbol,
                      typ |-> r.val.v.module.typ,
                      metadata |-> r.val.v.module.metadata,
                      value |-> unroot(rooted_clone(r.val.v.module.value))])]
    ELSE [s |-> r.s, val |-> Err(r.val.err)]

\* A global_inner that executes the IO action whatever the settings say.
global_inner_value_always_io(s, t, c, v) ==
    IF v.val.ok
    THEN [s |-> ReportRead(LogEvent(v.s, [e |-> "run_io",
                                          m |-> definition_name(c.val.v.name)]),
                           SettingsDep),
          val |-> Ok([id |-> c.val.v.name,
                      typ |-> t.val.v.typ,
                      metadata |-> t.val.v.metadata,
                      value |-> unroot(root_value(s.vm,
                                    deep_clone(run_io(s.vm, v.val.v).val)))])]
    ELSE [s |-> v.s, val |-> Err(v.val.err)]

\* global_inner after call_thunk_top(&closure)?
global_inner_value(s, t, c, v) ==
    IF v.val.ok
    THEN [s |-> ReportRead(IF s.settings.val.run_io
                           THEN LogEvent(v.s, [e |-> "run_io",
                                               m |-> definition_name(c.val.v.name)])
                           ELSE v.s,
                           SettingsDep),
          val |-> Ok([id |-> c.val.v.name,
                      typ |-> t.val.v.typ,
                      metadata |-> t.val.v.metadata,
                      value |-> unroot(root_value(s.vm,
                                    deep_clone((IF s.settings.val.run_io
                                                THEN run_io(s.vm, v.val.v)
                                                ELSE v.val.v).val)))])]
    ELSE [s |-> v.s, val |-> Err(v.val.err)]

\* global_inner after db.compiled_module(name, None)?
global_inner_compiled(s, t, c) ==
    IF c.val.ok
    THEN global_inner_value(s, t, c,
             Awaited(call_thunk_top(c.s, c.val.v), "call_thunk_top",
                     definition_name(c.val.v.name)))
    ELSE [s |-> c.s, val |-> Err(c.val.err)]

\* global_inner after db.typechecked_module(name, None)?
global_inner_typechecked(s, name, t) ==
    IF t.val.ok
    THEN global_inner_compiled(s, t,
             Awaited(Read(t.s, Key("compiled_module", name)),
                     "compiled_module", name))
    ELSE [s |-> t.s, val |-> Err(t.val.err)]

\* A global_inner that prefers the inline text of a module to its loader.
global_inner_inline_first(s, name) ==
    IF s.loader[name].set /\ s.state.inline_modules[name] = NoText
    THEN global_inner_extern(
             Awaited(Read(s, Key("extern_module", name)), "extern_module", name))
    ELSE global_inner_typechecked(s, name,
             Awaited(Read(s, Key("typechecked_module", name)),
                     "typechecked_module", name))

global_inner(s, name) ==
    IF s.loader[name].set
    THEN global_inner_extern(
             Awaited(Read(s, Key("extern_module", name)), "extern_module", name))
    ELSE global_inner_typechecked(s, name,
             Awaited(Read(s, Key("typechecked_module", name)),
                     "typechecked_module", name))

\* .map(|global| root_global_with(global, db.thread().root_thread()))
global_rooted(s, r) ==
    [s |-> r.s,
     val |-> IF r.val.ok THEN Ok(root_global_with(CachedGlobal(r.val.v), s.vm))
             ELSE r.val]

global(s, name) == global_rooted(s, Read(s, Key("global_inner", name)))

\* The type of the global that load_module forced.
load_module_type(name, g) ==
    [s |-> LogEvent(g.s, [e |-> "load_module", m |-> name]),
     val |-> IF g.val.ok THEN Ok(g.val.v.typ) ELSE Err(g.val.err)]

\* Import::load_module forces the module's global and yields its type.
load_module(s, name) == load_module_type(name, global(s, TrimStartAt(name)))

\* An import that leaves with the error of load_module before it sweeps.
import_loaded_sweeping_on_success(name, result) ==
    IF result.val.ok
    THEN [s |-> LogEvent(collect_garbage(result.s),
                         [e |-> "import", m |-> name, ok |-> TRUE]),
          val |-> Ok([name |-> name, typ |-> result.val.v])]
    ELSE [s |-> LogEvent(result.s, [e |-> "import", m |-> name, ok |-> FALSE]),
          val |-> Err(result.val.err)]

\* import after load_module: collect_garbage(), then typ = result?
import_loaded(name, result) ==
    IF result.val.ok
    THEN [s |-> LogEvent(collect_garbage(result.s),
                         [e |-> "import", m |-> name, ok |-> TRUE]),
          val |-> Ok([name |-> name, typ |-> result.val.v])]
    ELSE [s |-> LogEvent(collect_garbage(result.s),
                         [e |-> "import", m |-> name, ok |-> FALSE]),
          val |-> Err(result.val.err)]

import(s, modulename) ==
    import_loaded(Symbol(modulename), load_module(s, Symbol(modulename)))

RECURSIVE ImportDependencies(_, _, _)

\* A loop that goes on to the next dependency when an import failed.
ImportDependency_ignoring_errors(deps, i, r) ==
    ImportDependencies(
        LogEvent(r.s, [e |-> "dependency", m |-> deps[i], res |-> r.val]),
        deps, i + 1)

\* db.import(dep.clone()).await?
ImportDependency(deps, i, r) ==
    IF r.val.ok
    THEN ImportDependencies(
             LogEvent(r.s, [e |-> "dependency", m |-> deps[i], res |-> r.val]),
             deps, i + 1)
    ELSE [s |-> LogEvent(r.s, [e |-> "dependency", m |-> deps[i], res |-> r.val]),
          val |-> Err(r.val.err)]

\* The loop of extern_module over loader.dependencies: stops at the first
\* failing import.
ImportDependencies(s, deps, i) ==
    IF i > Len(deps) THEN [s |-> s, val |-> Ok("unit")]
    ELSE ImportDependency(deps, i, Read(s, Key("import", deps[i])))

\* extern_module after the loop: (loader.load_fn)(vm)?
extern_module_load(s, name, d) ==
    IF d.val.ok
    THEN [s |-> LogEvent(d.s, [e |-> "load_fn", m |-> name]),
          val |-> IF s.loader[name].val.ok
                  THEN Ok([symbol |-> <<"@">> \o name,
                           module |-> [typ |-> "Extern", metadata |-> "metadata",
                                       value |-> RootedValue(
                                           [txt |-> NoText, deps |-> <<>>,
                                            heap |-> "loader"], s.vm)]])
                  ELSE Err([kind |-> "extern-load", module |-> name])]
    ELSE [s |-> d.s, val |-> Err(d.val.err)]

extern_module(s, name) ==
    extern_module_load(s, name,
        ImportDependencies(ReportRead(s, LoaderDep(name)),
                           s.loader[name].val.dependencies, 1))

QueryFn(s, k) ==
    CASE k.q = "extern_module" -> extern_module(s, k.m)
      [] k.q = "module_text" -> module_text(s, k.m)
      [] k.q = "typechecked_module" -> typechecked_module(s, k.m)
      [] k.q = "core_expr" -> core_expr(s, k.m)
      [] k.q = "compiled_module" -> compiled_module(s, k.m)
      [] k.q = "import" -> import(s, k.m)
      [] k.q = "global_inner" -> global_inner(s, k.m)

\* A query that completes as a participant of a cycle is logged with the
\* value it completes with.
LogParticipant(s, k, f, val) ==
    IF f.cycle # <<>> THEN [s EXCEPT !.parts = @ \cup {[key |-> k, val |-> val]}]
    ELSE s

\* Stores the value a query completes with in its frame f, the top of the
\* stack of s, and pops the frame: a value equal to the old one keeps the
\* old changed-at.
Store(s, k, old, f, val) ==
    LET chg == IF old.st = "memo" /\ old.hasv /\ old.val = val THEN old.chg
               ELSE s.rev
        keep == MemoizesValue(k.q)
    IN  [s |-> [LogParticipant(Pop(s), k, f, val) EXCEPT
                  !.memo[k] = [st |-> "memo", hasv |-> keep,
                               val |-> IF keep THEN val ELSE NoVal,
                               ver |-> s.rev, chg |-> chg,
                               inputs |-> f.inputs, untracked |-> f.untracked],
                  !.execd = @ \cup {k}],
         val |-> val, chg |-> chg]

\* The query function returned r: a frame marked as a cycle participant
\* completes with the recovery value instead.
Complete(k, old, r) ==
    IF r.s.stack[Len(r.s.stack)].cycle # <<>>
    THEN Store(r.s, k, old, Top(r.s), Recover(k, Top(r.s).cycle))
    ELSE Store(r.s, k, old, Top(r.s), r.val)

\* Runs the query function of k in the frame on top of the stack.
Execute(s, k, old) == Complete(k, old, QueryFn(s, k))

AnyInputChangedFrom(inputs, i, since, c) ==
    IF c.changed THEN c ELSE AnyInputChanged(c.s, inputs, i + 1, since)

AnyInputChanged(s, inputs, i, since) ==
    IF i > Len(inputs) THEN [s |-> s, changed |-> FALSE]
    ELSE AnyInputChangedFrom(inputs, i, since,
             MaybeChangedSince(s, inputs[i], since))

\* An entry with a value is brought up to date and asked when it changed.
ChangedSinceFetched(since, f) == [s |-> f.s, changed |-> f.chg > since]

\* An entry without a value is valid if none of its dependencies changed.
ChangedSinceInputs(s, dep, since, c) ==
    IF c.s.memo[dep].ver = s.rev
    THEN [s |-> c.s, changed |-> c.s.memo[dep].chg > since]
    ELSE IF c.changed
    THEN [s |-> [c.s EXCEPT !.memo[dep] = NoMemo], changed |-> TRUE]
    ELSE [s |-> [c.s EXCEPT !.memo[dep].ver = s.rev], changed |-> FALSE]

MaybeChangedSince(s, dep, since) ==
    IF dep.q \notin Queries
    THEN [s |-> s, changed |-> InputChangedAt(s, dep) > since]
    ELSE IF OnStack(s, dep) \/ s.memo[dep].st = "none"
    THEN [s |-> s, changed |-> TRUE]
    ELSE IF s.memo[dep].ver = s.rev
    THEN [s |-> s, changed |-> s.memo[dep].chg > since]
    ELSE IF s.memo[dep].untracked THEN [s |-> s, changed |-> TRUE]
    ELSE IF s.memo[dep].hasv THEN ChangedSinceFetched(since, Fetch(s, dep))
    ELSE ChangedSinceInputs(s, dep, since,
             AnyInputChanged(s, s.memo[dep].inputs, 1, s.memo[dep].ver))

\* The entry of k is not verified in this revision: c tells whether a
\* dependency changed; if none did the cached value stands.
FetchValidated(s, k, c) ==
    IF c.changed THEN Execute(c.s, k, s.memo[k])
    ELSE [s |-> [LogParticipant(Pop(c.s), k, Top(c.s), s.memo[k].val)
                    EXCEPT !.memo[k].ver = s.rev],
          val |-> s.memo[k].val, chg |-> s.memo[k].chg]

\* The value of a derived query: the cached value when it was verified in
\* this revision or none of its dependencies changed since it was verified,
\* otherwise the result of executing the query function.
Fetch(s, k) ==
    CASE s.memo[k].st = "memo" /\ s.memo[k].hasv /\ s.memo[k].ver = s.rev ->
             [s |-> s, val |-> s.memo[k].val, chg |-> s.memo[k].chg]
      [] s.memo[k].st = "memo" /\ s.memo[k].hasv /\ s.memo[k].ver # s.rev
            /\ ~s.memo[k].untracked ->
             FetchValidated(s, k,
                 AnyInputChanged(Push(s, k), s.memo[k].inputs, 1, s.memo[k].ver))
      [] OTHER -> Execute(Push(s, k), k, s.memo[k])

\* The reader of a query that is already active gets the recovery value.
ReadCycle(k, mc) == [s |-> ReportRead(mc.s, k), val |-> Recover(k, mc.cycle)]

ReadFetched(k, f) == [val |-> f.val, s |-> ReportRead(f.s, k)]

\* A read of a derived query from a query function or from the host.  A
\* query that is already active re-enters itself: the participants are
\* marked and the reader gets the recovery value.
Read(s, k) ==
    IF OnStack(s, k) THEN ReadCycle(k, MarkCycle(s, k))
    ELSE ReadFetched(k, Fetch(s, k))

\* QueryTableMut::invalidate: starts a new revision and marks the entry as
\* depending on untracked state.
invalidate(s, k) ==
    [s EXCEPT !.rev = @ + 1,
              !.memo[k] = IF @.st = "memo" THEN [@ EXCEPT !.untracked = TRUE] ELSE @]

\* ------------------------------------------------------------------------
\* Host operations on a database handle
\* ------------------------------------------------------------------------
\* An add_module that invalidates module_text even when the text is the one
\* already stored.
add_module_always_invalidates(s, module, contents) ==
    LET s1 == [s EXCEPT !.state.inline_modules[module] = contents]
        s2 == IF s.state.inline_modules[module] # NoText
              THEN invalidate(s1, Key("module_text", module))
              ELSE s1
    IN  [s2 EXCEPT !.state = State_add_filemap(@, module, contents)]

\* An add_module that replaces the text without invalidating module_text.
add_module_never_invalidates(s, module, contents) ==
    LET s1 == [s EXCEPT !.state.inline_modules[module] = contents]
    IN  IF s.state.inline_modules[module] = contents THEN s
        ELSE [s1 EXCEPT !.state = State_add_filemap(@, module, contents)]

\* CompilationBase::add_module for CompilerDatabase
add_module(s, module, contents) ==
    LET entry == s.state.inline_modules[module]
    IN  IF entry # NoText
        THEN IF entry # contents
             THEN LET s1 == [s EXCEPT !.state.inline_modules[module] = contents]
                      s2 == invalidate(s1, Key("module_text", module))
                  IN  [s2 EXCEPT !.state = State_add_filemap(@, module, contents)]
             ELSE s
        ELSE LET s1 == [s EXCEPT !.state.inline_modules[module] = contents]
             IN  [s1 EXCEPT !.state = State_add_filemap(@, module, contents)]

\* Writing an input of the query group starts a new revision.
set_compiler_settings(s, value) ==
    [s EXCEPT !.rev = @ + 1, !.settings = [val |-> value, chg |-> s.rev + 1]]

set_extern_global(s, name, value) ==
    [s EXCEPT !.rev = @ + 1,
              !.xglobal[name] = [set |-> TRUE, val |-> value, chg |-> s.rev + 1]]

set_extern_loader(s, module, loader) ==
    [s EXCEPT !.rev = @ + 1,
              !.loader[module] = [set |-> TRUE, val |-> loader, chg |-> s.rev + 1]]

\* A set_global that stores the value still rooted.
set_global_rooted(s, name, typ, metadata, value) ==
    LET rooted == root_value(s.vm, deep_clone(value))
        s1 == [s EXCEPT !.state.extern_globals = @ \cup {name}]
    IN  set_extern_global(s1, name,
            [id |-> <<"@">> \o name, typ |-> typ, metadata |-> metadata,
             value |-> rooted])

\* CompilerDatabase::set_global
set_global(s, name, typ, metadata, value) ==
    LET rooted == root_value(s.vm, deep_clone(value))
        id == <<"@">> \o name
        unrooted == unroot(rooted)
        s1 == [s EXCEPT !.state.extern_globals = @ \cup {name}]
    IN  set_extern_global(s1, name,
            [id |-> id, typ |-> typ, metadata |-> metadata, value |-> unrooted])

\* ------------------------------------------------------------------------
\* The state machine
\* ------------------------------------------------------------------------
VARIABLES
    state,      \* the State behind the mutex
    rev,        \* current revision of the query engine
    memo,       \* the engine's entry for every derived query key
    settings,   \* input compiler_settings
    loader,     \* input extern_loader, per module
    xglobal,    \* input extern_global, per name
    op,         \* the last host operation, its result and what it executed
    phase,      \* per module, where it stands between edits and reads
    latest,     \* per module, the text of the most recent add_module
    pc,         \* where the root database's thread and the snapshot's are
    mutex,      \* the thread that holds the State mutex, or "none"
    readers     \* the live snapshots: each holds the engine's revision lock

dbvars == <<state, rev, memo, settings, loader, xglobal>>
procvars == <<pc, mutex, readers>>
vars == <<state, rev, memo, settings, loader, xglobal, op, phase, latest,
          pc, mutex, readers>>

NoLoader == [dependencies |-> <<>>, ok |-> FALSE]
NoGlobal ==
    [id |-> <<>>, typ |-> "none", metadata |-> "none",
     value |-> [val |-> [txt |-> NoText, deps |-> <<>>, heap |-> "managed"],
                thread |-> "none",
                rooted |-> FALSE]]

\* The database as seen through a handle whose thread is vm.
Db(vm) ==
    [state |-> state, rev |-> rev, memo |-> memo, settings |-> settings,
     loader |-> loader, xglobal |-> xglobal, stack |-> <<>>, execd |-> {},
     marked |-> {}, parts |-> {}, log |-> <<>>, vm |-> vm]

Install(s) ==
    /\ state' = s.state
    /\ rev' = s.rev
    /\ memo' = s.memo
    /\ settings' = s.settings
    /\ loader' = s.loader
    /\ xglobal' = s.xglobal

Op(name, vm, m, arg, res, s) ==
    [name |-> name, vm |-> vm, m |-> m, arg |-> arg, res |-> res,
     execd |-> s.execd, marked |-> s.marked, parts |-> s.parts, log |-> s.log]

\* The text a module currently has: inline if present, else what the
\* importer resolves.
TextOf(st, m) ==
    IF st.inline_modules[m] # NoText THEN st.inline_modules[m]
    ELSE IF get_module_source(TRUE, m).ok THEN get_module_source(TRUE, m).v
    ELSE NoText

RECURSIVE ImportsWithin(_, _, _, _)
ImportsWithin(st, b, a, fuel) ==
    LET text == TextOf(st, b)
    IN  /\ text.imp # <<>>
        /\ \/ text.imp[1] = a
           \/ fuel > 0 /\ ImportsWithin(st, text.imp[1], a, fuel - 1)

\* b imports a, directly or through other modules.
DependsOn(st, b, a) == ImportsWithin(st, b, a, Cardinality(Modules))

\* phase[m]:
\*   "none"        nothing is known about m's cached global
\*   "forced"      global(m) was read and no text changed since
\*   "readded"     then add_module(m, s) was called with m's current text
\*   "reused"      then global(m) was read again
\*   "unaffected"  m was up to date when the text of a module that m does
\*                 not depend on changed
\*   "reread"      then global(m) was read
\*   "affected"    m was up to date when the inline text of a module that m
\*                 depends on was replaced by a different text
\*   "refreshed"   then global(m) was read
\*   "swept"       m was up to date when collect_garbage was called
\*   "kept"        then global(m) was read
UpToDate == {"forced", "readded", "reused", "reread", "refreshed", "swept", "kept"}

PhaseAfterGlobal(m) ==
    [phase EXCEPT ![m] = CASE @ = "readded" -> "reused"
                           [] @ = "unaffected" -> "reread"
                           [] @ = "affected" -> "refreshed"
                           [] @ = "swept" -> "kept"
                           [] OTHER -> "forced"]

PhaseAfterAdd(a, text) ==
    LET entry == state.inline_modules[a]
    IN  IF entry = text
        THEN [phase EXCEPT ![a] = IF @ \in UpToDate THEN "readded" ELSE @]
        ELSE [b \in Modules |->
                IF b = a THEN "none"
                ELSE IF DependsOn(state, b, a)
                THEN IF entry # NoText /\ phase[b] \in UpToDate \cup {"affected", "unaffected"}
                     THEN "affected"
                     ELSE "none"
                ELSE IF phase[b] \in UpToDate \cup {"unaffected"} THEN "unaffected"
                ELSE phase[b]]

NoPhase == [m \in Modules |-> "none"]

\* A thread between two calls, and the snapshot's thread before the snapshot
\* is taken or after it is dropped.
Idle == [at |-> "idle", m |-> <<>>, arg |-> NoText]
NoSnapshot == [at |-> "none", m |-> <<>>, arg |-> NoText]

InitDb ==
    /\ state = [inline_modules |-> [m \in Modules |-> NoText],
                code_map |-> <<>>,
                index_map |-> [m \in Modules |-> 0],
                extern_globals |-> {}]
    /\ rev = 1
    /\ memo = [k \in Keys |-> NoMemo]
    /\ settings = [val |-> DefaultSettings, chg |-> 1]
    /\ loader = [m \in Modules |-> [set |-> FALSE, val |-> NoLoader, chg |-> 0]]
    /\ xglobal = [n \in ExternNames |-> [set |-> FALSE, val |-> NoGlobal, chg |-> 0]]
    /\ phase = NoPhase
    /\ latest = [m \in Modules |-> NoText]
    /\ pc = [root |-> Idle, snap |-> NoSnapshot]
    /\ mutex = "none"
    /\ readers = {}

\* CompilerDatabase::new_base
Init ==
    /\ InitDb
    /\ op = Op("new_base", "none", <<>>, NoText, NoVal, Db("none"))

\* A host call returns: the database is what the call left, and op records
\* the call, its result and what the engine did for it.
Return(name, vm, m, r) ==
    /\ Install(r.s)
    /\ op' = Op(name, vm, m, NoText, r.val, r.s)

ReturnOption(name, vm, m, r) ==
    /\ Install(r.s)
    /\ op' = Op(name, vm, m, NoText, [ok |-> r.some, v |-> r.v], r.s)

AddModule(vm, m, text) ==
    /\ state.inline_modules[m] \in {NoText, text} \/ rev < MaxRev
    /\ Install(add_module(Db(vm), m, text))
    /\ op' = Op("add_module", vm, m, text, NoVal, Db(vm))
    /\ phase' = PhaseAfterAdd(m, text)
    /\ latest' = [latest EXCEPT ![m] = text]
    /\ UNCHANGED procvars

ModuleText(vm, m) ==
    /\ Return("module_text", vm, m, Read(Db(vm), Key("module_text", m)))
    /\ UNCHANGED <<phase, latest>>
    /\ UNCHANGED procvars

Global(vm, m) ==
    /\ Return("global", vm, m, global(Db(vm), m))
    /\ phase' = PhaseAfterGlobal(m)
    /\ UNCHANGED latest
    /\ UNCHANGED procvars

Import(vm, m) ==
    /\ Return("import", vm, m, Read(Db(vm), Key("import", m)))
    /\ UNCHANGED <<phase, latest>>
    /\ UNCHANGED procvars

PeekGlobal(vm, m) ==
    /\ ReturnOption("peek_global", vm, m,
                    [s |-> Db(vm)] @@ peek_global(Db(vm), m))
    /\ UNCHANGED <<phase, latest>>
    /\ UNCHANGED procvars

GetExternGlobal(vm, n) ==
    /\ ReturnOption("get_extern_global", vm, n, get_extern_global(Db(vm), n))
    /\ UNCHANGED <<phase, latest>>
    /\ UNCHANGED procvars

EnvGetGlobal(vm, n) ==
    /\ ReturnOption("get_global", vm, n, Env_get_global(Db(vm), n))
    /\ UNCHANGED <<phase, latest>>
    /\ UNCHANGED procvars

\* The host sweeps the database.
CollectGarbage(vm) ==
    /\ Install(collect_garbage(Db(vm)))
    /\ op' = Op("collect_garbage", vm, <<>>, NoText, NoVal, Db(vm))
    /\ phase' = [m \in Modules |-> IF phase[m] \in UpToDate THEN "swept"
                                   ELSE phase[m]]
    /\ UNCHANGED latest
    /\ UNCHANGED procvars

\* The host reads extern_module(m) through the query group.
ExternModule(vm, m) ==
    /\ Return("extern_module", vm, m, Read(Db(vm), Key("extern_module", m)))
    /\ UNCHANGED <<phase, latest>>
    /\ UNCHANGED procvars

\* The operations of the environment view.
EnvViewOps ==
    {"find_var", "find_type", "find_type_info", "find_kind", "get_metadata",
     "find_expr", "get_global", "get_binding"}

EnvView(name, s, id) ==
    CASE name = "find_var" -> Env_find_var(s, id)
      [] name = "find_type" -> Env_find_type(s, id)
      [] name = "find_type_info" -> Env_find_type_info(s, id)
      [] name = "find_kind" -> Env_find_kind(s, id)
      [] name = "get_metadata" -> Env_get_metadata(s, id)
      [] name = "find_expr" -> Env_find_expr(s, id)
      [] name = "get_global" -> Env_get_global(s, id)

\* A compiler phase asks the environment view.
EnvLookup(vm, name, id) ==
    /\ ReturnOption(name, vm, id, EnvView(name, Db(vm), id))
    /\ UNCHANGED <<phase, latest>>
    /\ UNCHANGED procvars

GetBinding(vm, name) ==
    /\ Return("get_binding", vm, name, get_binding(Db(vm), name))
    /\ UNCHANGED <<phase, latest>>
    /\ UNCHANGED procvars

GetScopedGlobal(vm, name) ==
    /\ Install(get_scoped_global(Db(vm), name).s)
    /\ op' = Op("get_scoped_global", vm, name, NoText,
                [ok |-> get_scoped_global(Db(vm), name).some,
                 v |-> get_scoped_global(Db(vm), name).v,
                 remaining |-> get_scoped_global(Db(vm), name).remaining],
                get_scoped_global(Db(vm), name).s)
    /\ UNCHANGED <<phase, latest>>
    /\ UNCHANGED procvars

\* The value the host hands to set_global is rooted in the host's thread.
SetGlobal(vm, n) ==
    /\ rev < MaxRev
    /\ Install(set_global(Db(vm), n, "Int", "metadata",
                          [txt |-> Lit(rev), deps |-> <<>>, heap |-> "host"]))
    /\ op' = Op("set_global", vm, n, NoText, NoVal, Db(vm))
    /\ phase' = NoPhase
    /\ UNCHANGED latest
    /\ UNCHANGED procvars

\* The host switches the execution of IO actions on or off.
SetRunIo(vm, on) ==
    /\ rev < MaxRev
    /\ settings.val.run_io # on
    /\ Install(set_compiler_settings(Db(vm), [settings.val EXCEPT !.run_io = on]))
    /\ op' = Op("set_compiler_settings", vm, <<>>, NoText, NoVal, Db(vm))
    /\ phase' = NoPhase
    /\ UNCHANGED latest
    /\ UNCHANGED procvars

\* The host registers a record with the field f.
SetRecordGlobal(vm, n) ==
    /\ rev < MaxRev
    /\ Install(set_global(Db(vm), n, RecordType, "metadata",
                          [txt |-> Lit(rev),
                           deps |-> <<[txt |-> Lit(rev), deps |-> <<>>,
                                       heap |-> "host"]>>,
                           heap |-> "host"]))
    /\ op' = Op("set_global", vm, n, NoText, NoVal, Db(vm))
    /\ phase' = NoPhase
    /\ UNCHANGED latest
    /\ UNCHANGED procvars

SetExternLoader(vm, m, l) ==
    /\ rev < MaxRev
    /\ Install(set_extern_loader(Db(vm), m, l))
    /\ op' = Op("set_extern_loader", vm, m, NoText, NoVal, Db(vm))
    /\ phase' = NoPhase
    /\ UNCHANGED latest
    /\ UNCHANGED procvars

\* Incremental recompilation: the root database edits two modules, b
\* possibly importing a, and reads their globals.
Next ==
    \/ \E text \in {Lit(1), Lit(2)} : AddModule("t1", ModA, text)
    \/ \E text \in {Lit(1), Imp(ModA)} : AddModule("t1", ModB, text)
    \/ \E m \in {ModA, ModB} : Global("t1", m)

Spec == Init /\ [][Next]_vars

\* The text store: module b is resolved by the importer until it gets an
\* inline entry; the host reads module_text and forces import and global.
NextText ==
    \/ \E text \in {Lit(1), Lit(2)} : AddModule("t1", ModB, text)
    \/ ModuleText("t1", ModB)
    \/ Global("t1", ModB)
    \/ Import("t1", ModB)

SpecText == Init /\ [][NextText]_vars

\* Cyclic imports appearing and disappearing with edits: a imports b, and
\* b imports a or nothing.
NextCycle ==
    \/ AddModule("t1", ModA, Imp(ModB))
    \/ \E text \in {Lit(1), Imp(ModA)} : AddModule("t1", ModB, text)
    \/ \E m \in {ModA, ModB} : Global("t1", m)

SpecCycle == Init /\ [][NextCycle]_vars

\* Cyclic import graphs over all module names: a <-> b, and a module named
\* import that imports itself.
NextCycleNames ==
    \/ AddModule("t1", ModA, Imp(ModB))
    \/ AddModule("t1", ModB, Imp(ModA))
    \/ AddModule("t1", ModImp, Imp(ModImp))
    \/ \E m \in Modules : Global("t1", m)

SpecCycleNames == Init /\ [][NextCycleNames]_vars

\* Rooting: the root database (thread t1) and a snapshot (thread t2) read
\* globals that either of them cached; b is provided by an extern loader.
NextRoot ==
    \/ AddModule("t1", ModA, Lit(1))
    \/ ~xglobal[<<"x">>].set /\ SetGlobal("t1", <<"x">>)
    \/ ~loader[ModB].set
       /\ SetExternLoader("t1", ModB, [dependencies |-> <<>>, ok |-> TRUE])
    \/ \E vm \in Threads, m \in {ModA, ModB} : Global(vm, m)
    \/ \E vm \in Threads, m \in {ModA, ModB} : PeekGlobal(vm, m)
    \/ \E vm \in Threads : GetExternGlobal(vm, <<"x">>)
    \/ \E vm \in Threads, n \in {<<"x">>, <<"@", "a">>} : EnvGetGlobal(vm, n)

SpecRoot == Init /\ [][NextRoot]_vars

\* Failures and sweeps: b is ill-typed, imports a or not, the text of a changes,
\* and the host sweeps the database between reads of b's global.
NextSweep ==
    \/ \E text \in {Lit(1), Lit(2)} : AddModule("t1", ModA, text)
    \/ \E text \in {IllTyped, Imp(ModA), Lit(1)} : AddModule("t1", ModB, text)
    \/ Global("t1", ModB)
    \/ CollectGarbage("t1")

SpecSweep == Init /\ [][NextSweep]_vars

\* Extern modules: b is provided by a loader that declares a and import as
\* dependencies; a may be ill-typed and import may have no source.
ExternLoaders ==
    [dependencies : {<<ModA>>, <<ModA, ModImp>>, <<ModImp, ModA>>}, ok : BOOLEAN]

NextExtern ==
    \/ \E text \in {Lit(1), IllTyped} : AddModule("t1", ModA, text)
    \/ AddModule("t1", ModImp, Lit(1))
    \/ \E l \in ExternLoaders : SetExternLoader("t1", ModB, l)
    \/ loader[ModB].set /\ ExternModule("t1", ModB)

SpecExtern == Init /\ [][NextExtern]_vars

\* The environment view: compiler phases look up symbols while a is added
\* and forced and the extern global x is set.
EnvIds == {<<"@", "a">>, <<"a">>, <<"x">>, <<"@", "a", ".", "f">>}

NextEnv ==
    \/ \E text \in {Lit(1), Lit(2)} : AddModule("t1", ModA, text)
    \/ ~xglobal[<<"x">>].set /\ SetGlobal("t1", <<"x">>)
    \/ Global("t1", ModA)
    \/ \E name \in EnvViewOps \ {"get_binding"}, id \in EnvIds :
          EnvLookup("t1", name, id)
    \/ \E id \in EnvIds : GetBinding("t1", id)

SpecEnv == Init /\ [][NextEnv]_vars

\* Dotted names are resolved while a is added and forced and the extern
\* global x is set; nothing is known under b.
ScopedNames ==
    {<<"a">>, <<"@", "a">>, <<"a", ".", "f">>, <<"@", "a", ".", "f">>,
     <<"x">>, <<"x", ".", "f">>, <<"b">>, <<"b", ".", "f">>}

NextScoped ==
    \/ \E text \in {Lit(1), Lit(2)} : AddModule("t1", ModA, text)
    \/ ~xglobal[<<"x">>].set /\ SetGlobal("t1", <<"x">>)
    \/ ~xglobal[<<"x">>].set /\ SetRecordGlobal("t1", <<"x">>)
    \/ Global("t1", ModA)
    \/ \E name \in ScopedNames : GetScopedGlobal("t1", name)
    \/ \E name \in ScopedNames : GetBinding("t1", name)

SpecScoped == Init /\ [][NextScoped]_vars

\* ------------------------------------------------------------------------
\* The root database and a snapshot in two threads
\* ------------------------------------------------------------------------
\* add_module up to the invalidation: the State mutex is taken and the entry
\* is looked at.  A vacant entry or an unchanged text lets the call return
\* at once.  A changed text is stored, and the call goes on to invalidate
\* module_text with the mutex still held.
AddModuleBegin(vm, m, text) ==
    /\ pc.root = Idle
    /\ mutex = "none"
    /\ state.inline_modules[m] \in {NoText, text} \/ rev < MaxRev
    /\ IF state.inline_modules[m] \notin {NoText, text}
       THEN /\ state' = [state EXCEPT !.inline_modules[m] = text]
            /\ mutex' = vm
            /\ pc' = [pc EXCEPT !.root = [at |-> "invalidate", m |-> m, arg |-> text]]
            /\ UNCHANGED <<rev, memo, settings, loader, xglobal>>
       ELSE /\ Install(add_module(Db(vm), m, text))
            /\ UNCHANGED <<pc, mutex>>
    /\ op' = Op("add_module", vm, m, text, NoVal, Db(vm))
    /\ phase' = PhaseAfterAdd(m, text)
    /\ latest' = [latest EXCEPT ![m] = text]
    /\ UNCHANGED readers

\* The rest of add_module: the engine admits the invalidation, which starts
\* a new revision, once no snapshot is alive; then the file map is added and
\* the mutex released.
AddModuleInvalidate(vm) ==
    /\ pc.root.at = "invalidate"
    /\ readers = {}
    /\ Install([invalidate(Db(vm), Key("module_text", pc.root.m))
                   EXCEPT !.state = State_add_filemap(@, pc.root.m, pc.root.arg)])
    /\ mutex' = "none"
    /\ pc' = [pc EXCEPT !.root = Idle]
    /\ UNCHANGED <<op, phase, latest, readers>>

\* set_global up to the input: the value is cloned and the name inserted
\* into State.extern_globals under the mutex, which is released again.
SetGlobalInsert(vm, n) ==
    /\ pc.root = Idle
    /\ mutex = "none"
    /\ rev < MaxRev
    /\ state' = [state EXCEPT !.extern_globals = @ \cup {n}]
    /\ pc' = [pc EXCEPT !.root = [at |-> "set_extern_global", m |-> n, arg |-> NoText]]
    /\ op' = Op("set_global", vm, n, NoText, NoVal, Db(vm))
    /\ UNCHANGED <<rev, memo, settings, loader, xglobal, phase, latest, mutex, readers>>

\* The rest of set_global: the input extern_global is set once no snapshot
\* is alive.
SetGlobalInput(vm) ==
    /\ pc.root.at = "set_extern_global"
    /\ readers = {}
    /\ Install(set_global(Db(vm), pc.root.m, "Int", "metadata",
                          [txt |-> Lit(rev), deps |-> <<>>, heap |-> "host"]))
    /\ pc' = [pc EXCEPT !.root = Idle]
    /\ UNCHANGED <<op, phase, latest, mutex, readers>>

\* CompilerDatabase::snapshot: the root's thread hands a snapshot, which
\* shares the State, to another thread.
TakeSnapshot(vm) ==
    /\ pc.root = Idle
    /\ pc.snap = NoSnapshot
    /\ readers' = readers \cup {vm}
    /\ pc' = [pc EXCEPT !.snap = Idle]
    /\ UNCHANGED <<dbvars, op, phase, latest, mutex>>

\* The snapshot's thread asks for module_text(m).
SnapshotQuery(vm, m) ==
    /\ pc.snap = Idle
    /\ pc' = [pc EXCEPT !.snap = [at |-> "module_text", m |-> m, arg |-> NoText]]
    /\ UNCHANGED <<dbvars, op, phase, latest, mutex, readers>>

\* The read needs the State mutex when the query function has to run.
NeedsState(vm, m) ==
    Key("module_text", m) \in Read(Db(vm), Key("module_text", m)).s.execd

\* The read returns: from the cache, or by running module_text, which locks
\* the State to look at the inline modules.
SnapshotModuleText(vm) ==
    /\ pc.snap.at = "module_text"
    /\ NeedsState(vm, pc.snap.m) => mutex = "none"
    /\ Return("module_text", vm, pc.snap.m,
              Read(Db(vm), Key("module_text", pc.snap.m)))
    /\ pc' = [pc EXCEPT !.snap = Idle]
    /\ UNCHANGED <<phase, latest, mutex, readers>>

\* get_extern_global in the snapshot's thread: the State is locked for the
\* lookup of the name, then the input is read; unset tells that the input
\* had no value.
SnapshotGetExternGlobal(vm, n) ==
    /\ pc.snap = Idle
    /\ mutex = "none"
    /\ Install(get_extern_global(Db(vm), n).s)
    /\ op' = Op("get_extern_global", vm, n, NoText,
                [ok |-> get_extern_global(Db(vm), n).some,
                 v |-> get_extern_global(Db(vm), n).v,
                 unset |-> n \in state.extern_globals /\ ~xglobal[n].set],
                Db(vm))
    /\ UNCHANGED <<phase, latest, procvars>>

\* The snapshot is dropped.
DropSnapshot(vm) ==
    /\ pc.snap = Idle
    /\ readers' = readers \ {vm}
    /\ pc' = [pc EXCEPT !.snap = NoSnapshot]
    /\ UNCHANGED <<dbvars, op, phase, latest, mutex>>

NextThreads ==
    \/ \E text \in {Lit(1), Lit(2)} : AddModuleBegin("t1", ModA, text)
    \/ AddModuleInvalidate("t1")
    \/ SetGlobalInsert("t1", <<"x">>)
    \/ SetGlobalInput("t1")
    \/ TakeSnapshot("t2")
    \/ \E m \in {ModA, ModB} : SnapshotQuery("t2", m)
    \/ SnapshotModuleText("t2")
    \/ SnapshotGetExternGlobal("t2", <<"x">>)
    \/ DropSnapshot("t2")

SpecThreads == Init /\ [][NextThreads]_vars

\* Modules are imported and looked up through the environment view while
\* their texts change; b may import a.
ImportIds == {<<"@", "a">>, <<"@", "b">>}

NextImport ==
    \/ \E text \in {Lit(1), Lit(2)} : AddModule("t1", ModA, text)
    \/ \E text \in {Lit(1), Imp(ModA)} : AddModule("t1", ModB, text)
    \/ \E m \in {ModA, ModB} : Import("t1", m)
    \/ \E name \in {"find_expr", "get_metadata"}, id \in ImportIds :
          EnvLookup("t1", name, id)

SpecImport == Init /\ [][NextImport]_vars

\* Globals are forced while texts, the run_io setting and the loader of b
\* change; b has a loader, an inline text, both or neither.
InnerTexts == {Lit(1), IllTyped, Uncompilable, Raises}
InnerLoader == [dependencies |-> <<>>, ok |-> TRUE]

NextInner ==
    \/ \E text \in InnerTexts : AddModule("t1", ModA, text)
    \/ state.inline_modules[ModB] = NoText /\ AddModule("t1", ModB, Imp(ModA))
    \/ SetRunIo("t1", TRUE)
    \/ ~loader[ModB].set /\ SetExternLoader("t1", ModB, InnerLoader)
    \/ \E m \in {ModA, ModB} : Global("t1", m)

SpecInner == Init /\ [][NextInner]_vars

\* recover_cycle as a function of the cycle it is handed.
RecoverNames == {ModA, <<"@", "b">>, ModImp}
RecoverKeys == [q : Queries, m : RecoverNames]
CycleInputs == UNION {[1..n -> RecoverKeys] : n \in 0..MaxCycleLen}

InitRecover ==
    /\ InitDb
    /\ \E cycle \in CycleInputs :
          op = Op("cycle", "none", ModA, cycle, NoVal, Db("none"))

RecoverCycle ==
    /\ op.name = "cycle"
    /\ op' = [op EXCEPT !.name = "recover_cycle",
                        !.res = recover_cycle(
                                    [i \in 1..Len(op.arg) |-> KeyString(op.arg[i])],
                                    op.m)]
    /\ UNCHANGED <<dbvars, phase, latest>>
    /\ UNCHANGED procvars

NextRecover == RecoverCycle

SpecRecover == InitRecover /\ [][NextRecover]_vars

\* ------------------------------------------------------------------------
\* Core expressions (vm/src/core) and the unnecessary-allocation pass
\* ------------------------------------------------------------------------
\* Expr: a record type is the list of its field names in declaration order.
Const(n) == [k |-> "Const", n |-> n]
Ident(x) == [k |-> "Ident", x |-> x]
Data(typ, args) == [k |-> "Data", typ |-> typ, args |-> args]
Call(f, args) == [k |-> "Call", f |-> f, args |-> args]
Let(name, e, body) == [k |-> "Let", name |-> name, expr |-> e, body |-> body]
Match(e, alts) == [k |-> "Match", scrut |-> e, alts |-> alts]
Cast(e, typ) == [k |-> "Cast", expr |-> e, typ |-> typ]

\* Expr::Let of a Named::Recursive binding with one closure.
LetClosure(name, params, fbody, body) ==
    [k |-> "LetClosure", name |-> name, params |-> params, fbody |-> fbody,
     body |-> body]
Alternative(pattern, e) == [pattern |-> pattern, expr |-> e]

\* Pattern::Record holds (field, Option<rename>) pairs; the rename is a
\* sequence of at most one symbol.
PatternRecord(fields) == [p |-> "Record", fields |-> fields]
PatternIdent(x) == [p |-> "Ident", x |-> x]

Some(v) == [some |-> TRUE, v |-> v]
Nothing == [some |-> FALSE]

\* Option::unwrap_or
UnwrapOr(o, d) == IF o.some THEN o.v ELSE d

\* SameLifetime::produce
produce(e) == e

\* base::merge::merge_fn: None when neither part changed, otherwise the
\* node rebuilt from the new parts and the produced old ones.
merge_fn(a, new_a, b, new_b, F(_, _)) ==
    IF ~new_a.some /\ ~new_b.some THEN Nothing
    ELSE Some(F(UnwrapOr(new_a, produce(a)), UnwrapOr(new_b, produce(b))))

\* A merge_slice_produce that looks at the first element only.
merge_slice_produce_first(slice, new) ==
    IF Len(slice) = 0 \/ ~new[1].some THEN Nothing
    ELSE Some([i \in 1..Len(slice) |-> UnwrapOr(new[i], produce(slice[i]))])

\* merge_slice_produce: None when no element changed.
merge_slice_produce(slice, new) ==
    IF \A i \in 1..Len(slice) : ~new[i].some THEN Nothing
    ELSE Some([i \in 1..Len(slice) |-> UnwrapOr(new[i], produce(slice[i]))])

\* A make_let that names the binding after the field, whatever the pattern
\* calls it.
make_let_field_name(fields, next_expr, field, expr) == Let(field, expr, next_expr)

\* make_let of RecognizeUnnecessaryAllocation::visit_expr
make_let(fields, next_expr, field, expr) ==
    LET found == {i \in 1..Len(fields) : fields[i].name = field}
        pattern_field ==
            IF found = {} THEN "dummy"
            ELSE LET f == fields[CHOOSE i \in found : \A j \in found : i <= j]
                 IN  IF f.rename # <<>> THEN f.rename[1] ELSE f.name
    IN  Let(pattern_field, expr, next_expr)

\* row_iter().zip(exprs).rev().fold(next_expr, make_let): i counts down
\* from the number of zipped pairs.
RECURSIVE fold_lets(_, _, _, _, _)
fold_lets(fields, row, exprs, i, next_expr) ==
    IF i = 0 THEN next_expr
    ELSE fold_lets(fields, row, exprs, i - 1,
                   make_let(fields, next_expr, row[i], exprs[i]))

RECURSIVE visit_expr(_), walk_expr(_)

\* Visitor::visit_alt
visit_alt(alt) ==
    IF visit_expr(alt.expr).some
    THEN Some(Alternative(alt.pattern, visit_expr(alt.expr).v))
    ELSE Nothing

\* walk_expr; walk_bind leaves the name of a binding alone (visit_binding
\* returns None).
walk_expr(expr) ==
    CASE expr.k = "Call" ->
            merge_fn(expr.f, visit_expr(expr.f),
                     expr.args,
                     merge_slice_produce(expr.args,
                         [i \in 1..Len(expr.args) |-> visit_expr(expr.args[i])]),
                     Call)
      [] expr.k \in {"Const", "Ident"} -> Nothing
      [] expr.k = "Data" ->
            IF merge_slice_produce(expr.args,
                   [i \in 1..Len(expr.args) |-> visit_expr(expr.args[i])]).some
            THEN Some(Data(expr.typ,
                      merge_slice_produce(expr.args,
                          [i \in 1..Len(expr.args) |-> visit_expr(expr.args[i])]).v))
            ELSE Nothing
      [] expr.k = "Let" ->
            merge_fn(expr.expr, visit_expr(expr.expr),
                     expr.body, visit_expr(expr.body),
                     LAMBDA e, body : Let(expr.name, e, body))
      [] expr.k = "LetClosure" ->
            merge_fn(expr.fbody, visit_expr(expr.fbody),
                     expr.body, visit_expr(expr.body),
                     LAMBDA fbody, body :
                         LetClosure(expr.name, expr.params, fbody, body))
      [] expr.k = "Match" ->
            merge_fn(expr.scrut, visit_expr(expr.scrut),
                     expr.alts,
                     merge_slice_produce(expr.alts,
                         [i \in 1..Len(expr.alts) |-> visit_alt(expr.alts[i])]),
                     Match)
      [] expr.k = "Cast" ->
            IF visit_expr(expr.expr).some
            THEN Some(Cast(visit_expr(expr.expr).v, expr.typ))
            ELSE Nothing

\* walk_expr_alloc allocates the new node in the arena.
walk_expr_alloc(expr) == walk_expr(expr)

\* RecognizeUnnecessaryAllocation::visit_expr
visit_expr(expr) ==
    IF expr.k = "Match" /\ expr.scrut.k = "Data" /\ Len(expr.alts) = 1
    THEN IF expr.alts[1].pattern.p = "Record"
         THEN Some(fold_lets(expr.alts[1].pattern.fields, expr.scrut.typ,
                             expr.scrut.args,
                             IF Len(expr.scrut.typ) < Len(expr.scrut.args)
                             THEN Len(expr.scrut.typ) ELSE Len(expr.scrut.args),
                             expr.alts[1].expr))
         ELSE walk_expr_alloc(expr)
    ELSE walk_expr_alloc(expr)

optimize_unnecessary_allocation(expr) == UnwrapOr(visit_expr(expr), expr)

\* ------------------------------------------------------------------------
\* The pass as a function of its input
\* ------------------------------------------------------------------------
\* Most fields of the record type that is built and destructured.
MaxFields == 2

FieldNames == <<"l", "r", "s">>
Row == SubSeq(FieldNames, 1, MaxFields)
RowFields == {Row[i] : i \in 1..Len(Row)}

\* Field expressions: variables in scope and a constant.
Leaves == {Ident(x) : x \in RowFields} \cup {Const(1)}

\* Record patterns over the type: any fields, in any order, each bound
\* under its own name or renamed, no symbol bound twice.
FieldPatterns == [name : RowFields, rename : {<<>>, <<"r">>}]
BoundSymbol(f) == IF f.rename # <<>> THEN f.rename[1] ELSE f.name
RecordPatterns ==
    {fs \in UNION {[1..n -> FieldPatterns] : n \in 0..Len(Row)} :
        \A i, j \in 1..Len(fs) :
            i # j => fs[i].name # fs[j].name /\ BoundSymbol(fs[i]) # BoundSymbol(fs[j])}

\* match { l } with | { l } -> l end
InnerMatch ==
    Match(Data(<<"l">>, <<Ident("l")>>),
          <<Alternative(PatternRecord(<<[name |-> "l", rename |-> <<>>]>>),
                        Ident("l"))>>)

Bodies == {Ident(x) : x \in RowFields} \cup {InnerMatch}

\* A record literal that is destructured at once.
Destructurings ==
    {Match(Data(Row, args), <<Alternative(PatternRecord(fs), body)>>) :
        args \in [1..Len(Row) -> Leaves], fs \in RecordPatterns, body \in Bodies}

\* Shapes that the pass only walks through.
Surroundings ==
    {Let("x", InnerMatch, Ident("x")),
     Let("x", Const(1), InnerMatch),
     Data(<<"l">>, <<InnerMatch>>),
     Call(Ident("f"), <<Const(1), InnerMatch>>),
     Match(Ident("l"), <<Alternative(PatternIdent("x"), InnerMatch)>>),
     Match(Data(<<"l">>, <<Ident("l")>>),
           <<Alternative(PatternIdent("x"), Ident("x"))>>),
     Match(Data(<<"l">>, <<Ident("l")>>),
           <<Alternative(PatternRecord(<<>>), Const(1)),
             Alternative(PatternIdent("x"), InnerMatch)>>),
     Let("x", Const(1), Ident("x")),
     Ident("l")}

AllocInputs == Destructurings \cup Surroundings

InitAlloc ==
    /\ InitDb
    /\ \E e \in AllocInputs : op = Op("expr", "none", <<>>, e, NoVal, Db("none"))

OptimizeUnnecessaryAllocation ==
    /\ op.name = "expr"
    /\ op' = [op EXCEPT !.name = "optimize_unnecessary_allocation",
                        !.res = optimize_unnecessary_allocation(op.arg)]
    /\ UNCHANGED <<dbvars, phase, latest>>
    /\ UNCHANGED procvars

NextAlloc == OptimizeUnnecessaryAllocation

SpecAlloc == InitAlloc /\ [][NextAlloc]_vars

\* walk_expr as a function of its input: nodes of every variant whose
\* children are leaves, a destructuring that the visitor rewrites, or a let
\* around one.
Parts == {Const(1), Ident("l"), InnerMatch, Let("x", Const(1), InnerMatch)}

WalkInputs ==
    Parts
    \cup {Call(f, <<a, b>>) : f \in Parts, a \in Parts, b \in Parts}
    \cup {Data(<<"l", "r">>, <<a, b>>) : a \in Parts, b \in Parts}
    \cup {Let("x", a, b) : a \in Parts, b \in Parts}
    \cup {LetClosure("f", <<"a">>, a, b) : a \in Parts, b \in Parts}
    \cup {Match(e, <<Alternative(PatternIdent("x"), a),
                     Alternative(PatternIdent("y"), b)>>) :
              e \in Parts, a \in Parts, b \in Parts}
    \cup {Cast(a, "Int") : a \in Parts}

InitWalk ==
    /\ InitDb
    /\ \E e \in WalkInputs : op = Op("expr", "none", <<>>, e, NoVal, Db("none"))

WalkExpr ==
    /\ op.name = "expr"
    /\ op' = [op EXCEPT !.name = "walk_expr", !.res = walk_expr(op.arg)]
    /\ UNCHANGED <<dbvars, phase, latest>>
    /\ UNCHANGED procvars

NextWalk == WalkExpr

SpecWalk == InitWalk /\ [][NextWalk]_vars

\* ------------------------------------------------------------------------
\* The producers
\* ------------------------------------------------------------------------
\* Expr::Let of a Named::Recursive binding with any number of closures.
RecClosure(name, params, fbody) == [name |-> name, params |-> params, fbody |-> fbody]
LetRecursive(closures, body) ==
    [k |-> "LetRecursive", closures |-> closures, body |-> body]

\* A panic unwinds through every caller: no node is allocated around it.
Panic == [k |-> "panic"]
Unwrap(o) == IF o.some THEN o.v ELSE Panic
Alloc(parts, node) ==
    IF \E i \in 1..Len(parts) : parts[i].k = "panic" THEN Panic ELSE node

\* base::merge::merge_collect with an action that returns Some for every
\* element: None for the empty slice, for which the action is never called.
merge_collect(new) == IF Len(new) = 0 THEN Nothing ELSE Some(new)

RECURSIVE DifferentLifetime_produce(_)

\* walk_closures with the DifferentLifetime visitor
DifferentLifetime_walk_closures(closures) ==
    merge_collect([i \in 1..Len(closures) |->
                      RecClosure(closures[i].name, closures[i].params,
                                 DifferentLifetime_produce(closures[i].fbody))])

\* walk_bind of a recursive binding: walk_named maps walk_closures, the name
\* is left alone, merge_fn returns None when both are None.
DifferentLifetime_walk_bind(closures) == DifferentLifetime_walk_closures(closures)

\* walk_expr with the DifferentLifetime visitor, whose visit_expr is
\* Some(self.produce(expr)); merge_fn asks the producer for the parts that
\* came back None.
DifferentLifetime_walk_expr(expr) ==
    CASE expr.k = "Call" ->
            Some(Alloc(<<DifferentLifetime_produce(expr.f)>>
                           \o [i \in 1..Len(expr.args) |->
                                  DifferentLifetime_produce(expr.args[i])],
                       Call(DifferentLifetime_produce(expr.f),
                            [i \in 1..Len(expr.args) |->
                                DifferentLifetime_produce(expr.args[i])])))
      [] expr.k \in {"Const", "Ident"} -> Nothing
      [] expr.k = "Data" ->
            IF Len(expr.args) = 0 THEN Nothing
            ELSE Some(Alloc([i \in 1..Len(expr.args) |->
                                DifferentLifetime_produce(expr.args[i])],
                            Data(expr.typ,
                                 [i \in 1..Len(expr.args) |->
                                     DifferentLifetime_produce(expr.args[i])])))
      [] expr.k = "Let" ->
            Some(Alloc(<<DifferentLifetime_produce(expr.expr),
                         DifferentLifetime_produce(expr.body)>>,
                       Let(expr.name, DifferentLifetime_produce(expr.expr),
                           DifferentLifetime_produce(expr.body))))
      [] expr.k = "LetRecursive" ->
            IF DifferentLifetime_walk_bind(expr.closures).some
            THEN Some(Alloc([i \in 1..Len(expr.closures) |->
                                DifferentLifetime_walk_bind(expr.closures).v[i].fbody]
                                \o <<DifferentLifetime_produce(expr.body)>>,
                            LetRecursive(DifferentLifetime_walk_bind(expr.closures).v,
                                         DifferentLifetime_produce(expr.body))))
            ELSE Some(Alloc(<<DifferentLifetime_produce(expr.body),
                              Unwrap(DifferentLifetime_walk_bind(expr.closures))>>,
                            LetRecursive(expr.closures,
                                         DifferentLifetime_produce(expr.body))))
      [] expr.k = "Match" ->
            Some(Alloc(<<DifferentLifetime_produce(expr.scrut)>>
                           \o [i \in 1..Len(expr.alts) |->
                                  DifferentLifetime_produce(expr.alts[i].expr)],
                       Match(DifferentLifetime_produce(expr.scrut),
                             [i \in 1..Len(expr.alts) |->
                                 Alternative(expr.alts[i].pattern,
                                     DifferentLifetime_produce(expr.alts[i].expr))])))
      [] expr.k = "Cast" ->
            Some(Alloc(<<DifferentLifetime_produce(expr.expr)>>,
                       Cast(DifferentLifetime_produce(expr.expr), expr.typ)))

\* DifferentLifetime::produce
DifferentLifetime_produce(expr) ==
    CASE expr.k \in {"Const", "Ident"} -> expr
      [] expr.k = "Data" /\ Len(expr.args) = 0 -> Data(expr.typ, <<>>)
      [] OTHER -> Unwrap(DifferentLifetime_walk_expr(expr))

\* The producers as functions of their input: every variant, with empty and
\* non-empty argument, alternative and closure lists, one level of nesting.
ProduceParts ==
    {Const(1), Ident("l"), Data(<<>>, <<>>), Data(<<"l">>, <<Ident("l")>>),
     Call(Ident("f"), <<>>),
     LetRecursive(<<RecClosure("f", <<"a">>, Ident("a"))>>, Ident("f")),
     LetRecursive(<<>>, Const(1))}

ProduceClosures ==
    {RecClosure("f", <<"a">>, b) : b \in {Ident("a"), Call(Ident("g"), <<Ident("a")>>)}}
    \cup {RecClosure("g", <<>>, Cast(Const(1), "Int"))}

ProduceInputs ==
    ProduceParts
    \cup {Call(f, <<a>>) : f \in ProduceParts, a \in ProduceParts}
    \cup {Data(<<"l", "r">>, <<a, b>>) : a \in ProduceParts, b \in ProduceParts}
    \cup {Let("x", a, b) : a \in ProduceParts, b \in ProduceParts}
    \cup {LetRecursive(cs, b) :
              cs \in UNION {[1..n -> ProduceClosures] : n \in 0..2},
              b \in ProduceParts}
    \cup {Match(e, <<Alternative(PatternIdent("x"), a)>>) :
              e \in ProduceParts, a \in ProduceParts}
    \cup {Match(e, <<>>) : e \in ProduceParts}
    \cup {Cast(a, "Int") : a \in ProduceParts}

InitProduce ==
    /\ InitDb
    /\ \E e \in ProduceInputs : op = Op("expr", "none", <<>>, e, NoVal, Db("none"))

ProduceDifferentLifetime ==
    /\ op.name = "expr"
    /\ op' = [op EXCEPT !.name = "DifferentLifetime::produce",
                        !.res = DifferentLifetime_produce(op.arg)]
    /\ UNCHANGED <<dbvars, phase, latest>>
    /\ UNCHANGED procvars

ProduceSameLifetime ==
    /\ op.name = "expr"
    /\ op' = [op EXCEPT !.name = "SameLifetime::produce", !.res = produce(op.arg)]
    /\ UNCHANGED <<dbvars, phase, latest>>
    /\ UNCHANGED procvars

NextProduce ==
    \/ ProduceDifferentLifetime
    \/ ProduceSameLifetime

SpecProduce == InitProduce /\ [][NextProduce]_vars

\* ------------------------------------------------------------------------
\* The optimizer pipeline
\* ------------------------------------------------------------------------
\* The direct sub-expressions of an expression, in evaluation order.
Children(e) ==
    CASE e.k \in {"Const", "Ident"} -> <<>>
      [] e.k = "Data" -> e.args
      [] e.k = "Call" -> <<e.f>> \o e.args
      [] e.k = "Let" -> <<e.expr, e.body>>
      [] e.k = "LetClosure" -> <<e.fbody, e.body>>
      [] e.k = "Match" -> <<e.scrut>> \o [i \in 1..Len(e.alts) |-> e.alts[i].expr]
      [] e.k = "Cast" -> <<e.expr>>

\* An expression is pure when it is built from constants, identifiers,
\* closures, lets of pure expressions and calls of closures proved pure.
RECURSIVE IsPure(_, _)
IsPure(e, p) ==
    /\ e.k = "Call" => e.f.k = "Ident" /\ e.f.x \in p.call
    /\ \A i \in 1..Len(Children(e)) :
          (e.k = "LetClosure" /\ i = 1) \/ IsPure(Children(e)[i], p)

\* purity::purity: the let-bound symbols whose definition is pure (load),
\* and the closures whose body is pure (call).
RECURSIVE Purity(_, _), PurityAll(_, _, _)
PurityBind(e, p) ==
    CASE e.k = "Let" ->
            IF IsPure(e.expr, p) THEN [p EXCEPT !.load = @ \cup {e.name}] ELSE p
      [] e.k = "LetClosure" ->
            [load |-> p.load \cup {e.name},
             call |-> IF IsPure(e.fbody, p) THEN p.call \cup {e.name} ELSE p.call]

Purity(e, p) ==
    IF e.k \in {"Let", "LetClosure"}
    THEN Purity(e.body, PurityBind(e, Purity(Children(e)[1], p)))
    ELSE PurityAll(Children(e), p, 1)

PurityAll(es, p, i) ==
    IF i > Len(es) THEN p ELSE PurityAll(es, Purity(es[i], p), i + 1)

purity(expr) == Purity(expr, [load |-> {}, call |-> {}])

\* dead_code::DepGraph: a binding uses the symbols its definition mentions;
\* the root uses the symbols mentioned outside every definition.
RECURSIVE Uses(_), Edges(_)
Uses(e) ==
    CASE e.k = "Ident" -> {e.x}
      [] e.k \in {"Let", "LetClosure"} -> Uses(e.body)
      [] OTHER -> UNION {Uses(Children(e)[i]) : i \in 1..Len(Children(e))}

Edges(e) ==
    (IF e.k \in {"Let", "LetClosure"}
     THEN {<<e.name, y>> : y \in Uses(Children(e)[1])} ELSE {})
    \cup UNION {Edges(Children(e)[i]) : i \in 1..Len(Children(e))}

RECURSIVE Reachable(_, _)
ReachableStep(used, next, edges) ==
    IF next = used THEN used ELSE Reachable(next, edges)

Reachable(used, edges) ==
    ReachableStep(used, used \cup {e[2] : e \in {d \in edges : d[1] \in used}},
                  edges)

\* DepGraph::used_bindings
used_bindings(expr) == Reachable(Uses(expr), Edges(expr))

\* dead_code::dead_code_elimination: a let is elided when its symbol is
\* unused and in the purity set.
RECURSIVE dead_code_elimination(_, _, _)
dead_code_elimination(used, pure_symbols, e) ==
    CASE e.k \in {"Const", "Ident"} -> e
      [] e.k = "Data" ->
            Data(e.typ, [i \in 1..Len(e.args) |->
                            dead_code_elimination(used, pure_symbols, e.args[i])])
      [] e.k = "Call" ->
            Call(dead_code_elimination(used, pure_symbols, e.f),
                 [i \in 1..Len(e.args) |->
                     dead_code_elimination(used, pure_symbols, e.args[i])])
      [] e.k = "Let" ->
            IF e.name \notin used /\ e.name \in pure_symbols.load
            THEN dead_code_elimination(used, pure_symbols, e.body)
            ELSE Let(e.name, dead_code_elimination(used, pure_symbols, e.expr),
                     dead_code_elimination(used, pure_symbols, e.body))
      [] e.k = "LetClosure" ->
            IF e.name \notin used /\ e.name \in pure_symbols.load
            THEN dead_code_elimination(used, pure_symbols, e.body)
            ELSE LetClosure(e.name, e.params,
                            dead_code_elimination(used, pure_symbols, e.fbody),
                            dead_code_elimination(used, pure_symbols, e.body))
      [] e.k = "Match" ->
            Match(dead_code_elimination(used, pure_symbols, e.scrut),
                  [i \in 1..Len(e.alts) |->
                      Alternative(e.alts[i].pattern,
                                  dead_code_elimination(used, pure_symbols,
                                                        e.alts[i].expr))])

\* A closure known to the interpreter.
Closure(params, body) == [k |-> "Closure", params |-> params, body |-> body]

\* OptimizeEnv::find_expr: the already-compiled module g is \a -> 2.
find_expr(id) == IF id = "g" THEN Some(Closure(<<"a">>, Const(2))) ELSE Nothing

\* The interpreter's bindings: a symbol's known definition.
Bound(bindings, x, v) ==
    [y \in DOMAIN bindings \cup {x} |-> IF y = x THEN v ELSE bindings[y]]

Unbound(bindings, xs) == [y \in DOMAIN bindings \ xs |-> bindings[y]]

Resolve(bindings, x) ==
    IF x \in DOMAIN bindings THEN Some(bindings[x]) ELSE find_expr(x)

PatternSymbols(pattern) ==
    IF pattern.p = "Record"
    THEN {BoundSymbol(pattern.fields[i]) : i \in 1..Len(pattern.fields)}
    ELSE {pattern.x}

\* Beta-reduction: the parameters become lets of the arguments around the
\* closure's body.
RECURSIVE BindParams(_, _, _, _)
BindParams(params, args, body, i) ==
    IF i > Len(params) THEN body
    ELSE Let(params[i], args[i], BindParams(params, args, body, i + 1))

\* interpreter::Compiler::compile_expr: constants are propagated to their
\* uses and calls of known closures are beta-reduced.
RECURSIVE compile_expr(_, _)
compile_let(bindings, e, rhs) ==
    Let(e.name, rhs, compile_expr(e.body, Bound(bindings, e.name, rhs)))

compile_call(bindings, e, f, args) ==
    IF f.some
    THEN IF f.v.k = "Closure" /\ Len(f.v.params) = Len(args)
         THEN BindParams(f.v.params, args,
                         compile_expr(f.v.body, Unbound(bindings, {e.f.x})), 1)
         ELSE Call(e.f, args)
    ELSE Call(e.f, args)

compile_expr(e, bindings) ==
    CASE e.k = "Const" -> e
      [] e.k = "Ident" ->
            IF e.x \in DOMAIN bindings
            THEN IF bindings[e.x].k = "Const" THEN bindings[e.x] ELSE e
            ELSE e
      [] e.k = "Data" ->
            Data(e.typ, [i \in 1..Len(e.args) |-> compile_expr(e.args[i], bindings)])
      [] e.k = "Call" ->
            IF e.f.k = "Ident"
            THEN compile_call(bindings, e, Resolve(bindings, e.f.x),
                              [i \in 1..Len(e.args) |->
                                  compile_expr(e.args[i], bindings)])
            ELSE Call(compile_expr(e.f, bindings),
                      [i \in 1..Len(e.args) |-> compile_expr(e.args[i], bindings)])
      [] e.k = "Let" -> compile_let(bindings, e, compile_expr(e.expr, bindings))
      [] e.k = "LetClosure" ->
            LetClosure(e.name, e.params,
                       compile_expr(e.fbody,
                           Unbound(bindings, {e.name} \cup
                               {e.params[i] : i \in 1..Len(e.params)})),
                       compile_expr(e.body,
                           Bound(bindings, e.name, Closure(e.params, e.fbody))))
      [] e.k = "Match" ->
            Match(compile_expr(e.scrut, bindings),
                  [i \in 1..Len(e.alts) |->
                      Alternative(e.alts[i].pattern,
                          compile_expr(e.alts[i].expr,
                              Unbound(bindings, PatternSymbols(e.alts[i].pattern))))])

\* An optimize that keeps what the interpreter had rewritten when it failed.
optimize_pure_keeping_partial(pure_symbols, expr, ok) ==
    LET pass1 == dead_code_elimination(used_bindings(expr), pure_symbols, expr)
        compiled == compile_expr(pass1, <<>>)
    IN  dead_code_elimination(used_bindings(compiled), pure_symbols, compiled)

\* optimize, after the purity analysis: the purity set of that analysis
\* serves both dead-code passes; ok tells whether the interpreter succeeds.
optimize_pure(pure_symbols, expr, ok) ==
    LET pass1 == dead_code_elimination(used_bindings(expr), pure_symbols, expr)
        compiled == IF ok THEN compile_expr(pass1, <<>>) ELSE pass1
    IN  dead_code_elimination(used_bindings(compiled), pure_symbols, compiled)

optimize_allocated(expr, ok) == optimize_pure(purity(expr), expr, ok)

optimize(expr, ok) == optimize_allocated(optimize_unnecessary_allocation(expr), ok)

Definitions == {Const(1), Ident("l"), Call(Ident("p"), <<Const(1)>>)}

LetBodies ==
    {Ident("x"), Const(2), Let("y", Ident("x"), Const(2)),
     Let("y", Ident("x"), Ident("y")), Call(Ident("p"), <<Ident("x")>>),
     Call(Ident("g"), <<Ident("x")>>), InnerMatch}

ClosureBodies ==
    {Call(Ident("f"), <<Const(1)>>), Call(Ident("f"), <<Ident("l")>>), Const(1),
     Let("x", Call(Ident("f"), <<Const(1)>>), Ident("x")),
     Let("x", Call(Ident("f"), <<Const(1)>>), Const(1))}

OptimizeInputs ==
    {Let("x", d, b) : d \in Definitions, b \in LetBodies}
    \cup {Let("z", Const(1), Let("x", d, b)) : d \in Definitions, b \in LetBodies}
    \cup {LetClosure("f", <<"a">>, fb, b) :
            fb \in {Const(2), Ident("a"), Call(Ident("p"), <<Ident("a")>>)},
            b \in ClosureBodies}
    \cup {Call(Ident("g"), <<Const(1)>>)} \cup Surroundings

InitOptimize ==
    /\ InitDb
    /\ \E e \in OptimizeInputs : op = Op("expr", "none", <<>>, e, NoVal, Db("none"))

Optimize ==
    /\ op.name = "expr"
    /\ \E ok \in BOOLEAN :
          op' = [op EXCEPT !.name = "optimize", !.arg = [expr |-> op.arg, ok |-> ok],
                           !.res = optimize(op.arg, ok)]
    /\ UNCHANGED <<dbvars, phase, latest>>
    /\ UNCHANGED procvars

NextOptimize == Optimize

SpecOptimize == InitOptimize /\ [][NextOptimize]_vars

\* ------------------------------------------------------------------------
\* Properties
\* ------------------------------------------------------------------------
IsCyclic(val) == ~val.ok /\ val.err.kind = "CyclicDependency"

\* C1: whenever module m has an inline entry, module_text(m) returns the
\* text of the most recent add_module(m, .), also when the module was
\* computed from the importer's resolved source before the first add_module.
C1_ModuleTextIsLatestInline ==
    (op.name = "module_text" /\ latest[op.m] # NoText)
        => op.res = Ok(latest[op.m])

\* module_text(b) is read after add_module(b, .) while the cached global of
\* b still comes from the resolved source.
C1_Witness ==
    /\ op.name = "module_text"
    /\ latest[op.m] # NoText
    /\ memo[Key("global_inner", op.m)].hasv
    /\ memo[Key("global_inner", op.m)].val.ok
    /\ memo[Key("global_inner", op.m)].val.v.value.val.txt = ResolvedSource

\* C2: add_module(m, s) called while the inline entry of m equals s changes
\* nothing: no revision, no cache entry, no inline text, no file map.
C2_IdenticalAddIsNoOp ==
    [][(op'.name = "add_module" /\ state.inline_modules[op'.m] = op'.arg)
          => UNCHANGED dbvars]_vars

\* add_module(m, s) with the text m already has, after global(m) was cached.
C2_Witness ==
    /\ op.name = "add_module"
    /\ phase[op.m] = "readded"
    /\ memo[Key("global_inner", op.m)].hasv

\* C3: after add_module(m, s) and global(m), a second add_module(m, s)
\* followed by global(m) executes neither typechecked_module(m) nor
\* compiled_module(m).
C3_IdenticalAddReusesCache ==
    (op.name = "global" /\ phase[op.m] = "reused")
        => /\ Key("typechecked_module", op.m) \notin op.execd
           /\ Key("compiled_module", op.m) \notin op.execd

C3_Witness ==
    /\ op.name = "global"
    /\ phase[op.m] = "reused"
    /\ op.res.ok
    /\ rev > 1

\* C4, as stated: after the inline text of a module A changed, the next
\* global(B) of a module B that does not depend on A executes none of B's
\* typechecked_module, core_expr, compiled_module and global_inner.
C4_UnrelatedModuleNotReexecuted ==
    (op.name = "global" /\ phase[op.m] = "reread")
        => \A q \in {"typechecked_module", "core_expr", "compiled_module",
                     "global_inner"} : Key(q, op.m) \notin op.execd

\* The value global(m) has when every module on m's import chain is
\* evaluated from its current text.
RECURSIVE CurrentValue(_, _)
CurrentValue(st, m) ==
    LET text == TextOf(st, m)
    IN  [txt |-> text,
         deps |-> IF text.imp = <<>> THEN <<>>
                  ELSE <<CurrentValue(st, text.imp[1])>>,
         heap |-> "managed"]

\* C5: when B's global was computed through import(A) and A's inline text
\* is then replaced by a different one, the next global(B) returns the
\* value derived from A's new text.
C5_DependentSeesNewText ==
    (op.name = "global" /\ phase[op.m] = "refreshed")
        => /\ op.res.ok
           /\ op.res.v.value.val = CurrentValue(state, op.m)

C5_Witness ==
    /\ op.name = "global"
    /\ op.m = ModB
    /\ phase[ModB] = "refreshed"
    /\ state.inline_modules[ModB] = Imp(ModA)
    /\ state.inline_modules[ModA] = Lit(2)

\* C6: when a query re-enters itself, every query taking part completes
\* with a CyclicDependency error, typechecked_module with no partial
\* result, and global() of a participant returns that error.
C6_CycleErrorToEveryParticipant ==
    /\ \A k \in op.marked : \E p \in op.parts : p.key = k
    /\ \A p \in op.parts :
          /\ IsCyclic(p.val)
          /\ p.key.q = "typechecked_module" => p.val.partial = "None"
    /\ (op.name = "global" /\ Key("global_inner", op.m) \in op.marked)
          => IsCyclic(op.res)

\* global(a) ran into the cycle a -> b -> a that an edit of b created after
\* both globals had been cached.
C6_Witness ==
    /\ op.name = "global"
    /\ rev > 1
    /\ IsCyclic(op.res)
    /\ {Key("typechecked_module", ModA), Key("import", ModB),
        Key("global_inner", ModB), Key("typechecked_module", ModB)}
          \subseteq op.marked

\* The modules of the import cycle that m lies on, in the order in which
\* global(m) discovers them.
RECURSIVE ImportChain(_, _, _)
ImportChain(st, m, seen) ==
    LET text == TextOf(st, m)
    IN  IF text.imp = <<>> \/ text.imp[1] \in seen THEN <<m>>
        ELSE <<m>> \o ImportChain(st, text.imp[1], seen \cup {m})

\* C7, as stated: on a cyclic import graph, global(m) returns
\* CyclicDependency listing exactly the modules of the cycle, each once,
\* in discovery order.
C7_ParticipantsExactlyOnce ==
    (op.name = "global" /\ DependsOn(state, op.m, op.m))
        => /\ IsCyclic(op.res)
           /\ op.res.err.cycle = ImportChain(state, op.m, {op.m})

\* The names of the import-query keys of a cycle, in order, without a
\* leading '@'.
ImportNames(keys) ==
    LET kept == SelectSeq(keys, LAMBDA k : k.q = "import")
    IN  [i \in 1..Len(kept) |-> TrimStartAt(kept[i].m)]

\* C8, as stated: recover_cycle(cycle, module) returns
\* CyclicDependency(module, P) with P the names of the cycle's import-query
\* keys, in order; keys of other queries do not appear.
C8_OnlyImportKeys ==
    op.name = "recover_cycle"
        => op.res = Err([kind |-> "CyclicDependency", module |-> op.m,
                         cycle |-> ImportNames(op.arg)])

ReadsGlobal == {"global", "peek_global", "get_extern_global", "get_global"}

\* C9: every global that global(), peek_global(), get_extern_global() or
\* Env::get_global() hands out carries a value rooted in the thread of the
\* database the call was made on.
C9_HandedOutGlobalsAreRooted ==
    (op.name \in ReadsGlobal /\ op.res.ok)
        => /\ op.res.v.value.rooted
           /\ op.res.v.value.thread = op.vm

\* The snapshot's thread reads a global that the root database cached.
C9_Witness ==
    /\ op.name = "global"
    /\ op.vm = "t2"
    /\ op.res.ok
    /\ op.execd = {}
    /\ memo[Key("global_inner", op.m)].val.v.value.thread = "t1"

\* C10: every global in the global_inner cache and in the extern_global
\* input holds an unrooted value, and so does every clone of it.
C10_StoredGlobalsAreUnrooted ==
    /\ \A m \in Modules :
          LET e == memo[Key("global_inner", m)]
          IN  (e.hasv /\ e.val.ok)
                 => /\ ~e.val.v.value.rooted
                    /\ ~UnrootedValue_clone(e.val.v.value).rooted
    /\ \A n \in ExternNames :
          xglobal[n].set
             => /\ ~xglobal[n].val.value.rooted
                /\ ~UnrootedValue_clone(xglobal[n].val.value).rooted

\* A global set by the host, one built from a module's source and one
\* built by an extern loader are all stored.
C10_Witness ==
    /\ xglobal[<<"x">>].set
    /\ memo[Key("global_inner", ModA)].hasv
    /\ memo[Key("global_inner", ModA)].val.ok
    /\ memo[Key("global_inner", ModB)].hasv
    /\ memo[Key("global_inner", ModB)].val.ok

\* The data of v and of everything it refers to lies in the managed heap.
RECURSIVE IsDeepCloned(_)
IsDeepCloned(v) ==
    /\ v.heap = "managed"
    /\ \A i \in 1..Len(v.deps) : IsDeepCloned(v.deps[i])

\* C11, as stated: every value that global_inner caches, on the
\* extern-loader path and on the compiled-module path, was deep-cloned into
\* the managed heap before it was unrooted.
C11_CachedGlobalsAreDeepCloned ==
    \A m \in Modules :
        LET e == memo[Key("global_inner", m)]
        IN  (e.hasv /\ e.val.ok) => IsDeepCloned(e.val.v.value.val)

\* C12, as stated: once typechecked_module(M) has failed, a later global(M)
\* returns the cached failure without running the typechecker for M again,
\* as long as M's text did not change; a text change of another module or
\* a sweep does not make it run again.
C12_FailedTypecheckNotRetried ==
    [][(/\ op'.name = "global"
        /\ phase[op'.m] \in UpToDate \cup {"unaffected"}
        /\ ~op'.res.ok
        /\ op'.res.err = [kind |-> "typecheck", module |-> op'.m])
          => Key("typechecked_module", op'.m) \notin op'.execd]_vars

\* What extern_module did, in order: the imports of dependencies it asked
\* for and the call of the loader's load function.
LoaderCalls(log) == SelectSeq(log, LAMBDA ev : ev.e \in {"dependency", "load_fn"})

\* C13: extern_module(name) imports the declared dependencies in declaration
\* order and calls the load function only after all of them returned Ok; at
\* the first failing import it stops, the load function is not called and
\* that error is the result.
C13_DependenciesBeforeLoader ==
    op.name = "extern_module" =>
        LET deps == loader[op.m].val.dependencies
            calls == LoaderCalls(op.log)
            n == Cardinality({i \in 1..Len(calls) : calls[i].e = "dependency"})
        IN  /\ n <= Len(deps)
            /\ \A i \in 1..n : calls[i].e = "dependency" /\ calls[i].m = deps[i]
            /\ \A i \in 1..(n - 1) : calls[i].res.ok
            /\ IF n = Len(deps) /\ \A i \in 1..n : calls[i].res.ok
               THEN /\ Len(calls) = n + 1
                    /\ calls[n + 1] = [e |-> "load_fn", m |-> op.m]
                    /\ op.res.ok = loader[op.m].val.ok
               ELSE /\ Len(calls) = n
                    /\ n > 0
                    /\ ~calls[n].res.ok
                    /\ op.res = Err(calls[n].res.err)

\* The first of two dependencies fails: the second is not imported and the
\* loader is not called.
C13_Witness ==
    /\ op.name = "extern_module"
    /\ Len(loader[op.m].val.dependencies) = 2
    /\ Len(LoaderCalls(op.log)) = 1
    /\ ~op.res.ok

\* C14: every execution of import runs collect_garbage exactly once, after
\* load_module has finished and before import returns, whether load_module
\* succeeded or failed.
C14_ImportSweepsOnce ==
    op.name = "global" =>
        /\ \A k \in op.execd :
              k.q = "import" =>
                 \E i \in 1..Len(op.log) :
                     op.log[i].e = "import" /\ op.log[i].m = Symbol(k.m)
        /\ \A i \in 1..Len(op.log) :
              /\ op.log[i].e = "import" =>
                    /\ i >= 3
                    /\ op.log[i - 1] = [e |-> "collect_garbage"]
                    /\ op.log[i - 2] = [e |-> "load_module", m |-> op.log[i].m]
              /\ op.log[i].e = "collect_garbage" =>
                    /\ i < Len(op.log)
                    /\ op.log[i + 1].e = "import"
              /\ op.log[i].e = "load_module" =>
                    /\ i < Len(op.log)
                    /\ op.log[i + 1] = [e |-> "collect_garbage"]

\* One host call executes two nested imports whose load_module fails.
C14_Witness ==
    /\ op.name = "global"
    /\ \E i, j \in 1..Len(op.log) :
          /\ i < j
          /\ op.log[i].e = "import" /\ ~op.log[i].ok
          /\ op.log[j].e = "import" /\ ~op.log[j].ok

SweptQueries == {"module_text", "typechecked_module", "core_expr", "compiled_module"}

\* global(m) runs m's thunk in the same cases and returns the same value
\* whether or not the database s is swept first.
SweepIsUnobserved(s, m) ==
    /\ global(collect_garbage(s), m).val = global(s, m).val
    /\ Key("global_inner", m) \in global(collect_garbage(s), m).s.execd
          <=> Key("global_inner", m) \in global(s, m).s.execd

\* C15: collect_garbage discards cached values of module_text,
\* typechecked_module, core_expr and compiled_module only; the entries of
\* global_inner, import and extern_module, the inputs and the store are
\* unchanged, and a global(m) after the sweep returns the cached global
\* without running m's thunk again.
C15_SweepKeepsGlobals ==
    [][/\ op'.name = "collect_garbage" =>
            /\ UNCHANGED <<state, rev, settings, loader, xglobal>>
            /\ \A k \in Keys :
                  \/ memo'[k] = memo[k]
                  \/ /\ k.q \in SweptQueries
                     /\ memo'[k] = [memo[k] EXCEPT !.hasv = FALSE, !.val = NoVal]
            /\ \A m \in {ModA, ModB} : SweepIsUnobserved(Db(op'.vm), m)
       /\ (op'.name = "global" /\ phase[op'.m] = "swept") =>
            /\ op'.execd = {}
            /\ memo[Key("global_inner", op'.m)].hasv
            /\ op'.res.ok = memo[Key("global_inner", op'.m)].val.ok
      ]_vars

\* b's global is read again after a sweep that discarded cached values of
\* a, which b imported earlier.
C15_Witness ==
    /\ op.name = "global"
    /\ op.m = ModB
    /\ phase[ModB] = "kept"
    /\ op.res.ok
    /\ memo[Key("import", ModA)].hasv
    /\ \E k \in Keys : memo[k].st = "memo" /\ MemoizesValue(k.q) /\ ~memo[k].hasv

\* C16: no operation of the environment view executes a derived query: the
\* call leaves every entry of the derived queries, and the rest of the
\* database, as it was.
C16_EnvironmentViewOnlyPeeks ==
    [][op'.name \in EnvViewOps =>
          /\ op'.execd = {}
          /\ UNCHANGED dbvars]_vars

\* get_global is asked for a module that has a source but no cached global,
\* and answers that there is none.
C16_Witness ==
    /\ op.name = "get_global"
    /\ op.m = <<"@", "a">>
    /\ state.inline_modules[ModA] # NoText
    /\ ~memo[Key("global_inner", ModA)].hasv
    /\ ~op.res.ok

\* The let chain that binds, for the fields i.. of the row, the symbol
\* under which the pattern knows the field, or dummy, to the field's
\* expression, around the body.
RECURSIVE LetChain(_, _, _, _, _)
LetChain(row, exprs, fields, body, i) ==
    IF i > Len(row) THEN body
    ELSE Let(IF \E j \in 1..Len(fields) : fields[j].name = row[i]
             THEN BoundSymbol(fields[CHOOSE j \in 1..Len(fields) :
                                         fields[j].name = row[i]])
             ELSE "dummy",
             exprs[i],
             LetChain(row, exprs, fields, body, i + 1))

\* C17: a record literal destructured by a single record alternative becomes
\* one let per field of the record type, in declaration order with the first
\* field outermost, each named as the pattern binds the field or dummy when
\* the pattern omits it; match { l, r } with | { l, r } -> l end becomes
\* let l = l in let r = r in l.
C17_RewriteIsLetChain ==
    (op.name = "optimize_unnecessary_allocation" /\ op.arg \in Destructurings)
        => op.res = LetChain(op.arg.scrut.typ, op.arg.scrut.args,
                             op.arg.alts[1].pattern.fields,
                             op.arg.alts[1].expr, 1)

\* The example of the test unnecessary_allocation.
C17_Witness ==
    /\ op.name = "optimize_unnecessary_allocation"
    /\ op.arg = Match(Data(<<"l", "r">>, <<Ident("l"), Ident("r")>>),
                      <<Alternative(PatternRecord(<<[name |-> "l", rename |-> <<>>],
                                                    [name |-> "r", rename |-> <<>>]>>),
                                    Ident("l"))>>)
    /\ op.res = Let("l", Ident("l"), Let("r", Ident("r"), Ident("l")))

\* Evaluation of a core expression in an environment: the value, and the
\* leaf expressions in the order in which they were evaluated.
EvalSymbols == RowFields \cup {"dummy", "x"}
Envs == [EvalSymbols -> 1..2]

Position(row, field) == CHOOSE i \in 1..Len(row) : row[i] = field

RECURSIVE BindFields(_, _, _, _)
BindFields(env, fields, v, i) ==
    IF i > Len(fields) THEN env
    ELSE BindFields([env EXCEPT ![BoundSymbol(fields[i])] =
                         v.vals[Position(v.row, fields[i].name)]],
                    fields, v, i + 1)

BindPattern(env, pattern, v) ==
    IF pattern.p = "Record" THEN BindFields(env, pattern.fields, v, 1)
    ELSE [env EXCEPT ![pattern.x] = v]

RECURSIVE Flatten(_)
Flatten(traces) ==
    IF traces = <<>> THEN <<>> ELSE Head(traces) \o Flatten(Tail(traces))

RECURSIVE Eval(_, _)
EvalIn(first, body, F(_)) ==
    [val |-> Eval(body, F(first.val)).val,
     trace |-> first.trace \o Eval(body, F(first.val)).trace]

Eval(expr, env) ==
    CASE expr.k = "Const" -> [val |-> expr.n, trace |-> <<"const">>]
      [] expr.k = "Ident" -> [val |-> env[expr.x], trace |-> <<expr.x>>]
      [] expr.k = "Data" ->
            [val |-> [row |-> expr.typ,
                      vals |-> [i \in 1..Len(expr.args) |-> Eval(expr.args[i], env).val]],
             trace |-> Flatten([i \in 1..Len(expr.args) |-> Eval(expr.args[i], env).trace])]
      [] expr.k = "Let" ->
            EvalIn(Eval(expr.expr, env), expr.body,
                   LAMBDA v : [env EXCEPT ![expr.name] = v])
      [] expr.k = "Match" ->
            EvalIn(Eval(expr.scrut, env), expr.alts[1].expr,
                   LAMBDA v : BindPattern(env, expr.alts[1].pattern, v))

\* C18: for every destructured record literal, the rewritten let chain
\* evaluates in every environment to the same value, evaluating the field
\* expressions in the same order, as the original match.
C18_RewritePreservesEvaluation ==
    (op.name = "optimize_unnecessary_allocation" /\ op.arg \in Destructurings)
        => \A env \in Envs : Eval(op.res, env) = Eval(op.arg, env)

\* C19: the pass is idempotent: applied to its own output it returns an
\* expression structurally equal to that output.
C19_RewriteIsIdempotent ==
    op.name = "optimize_unnecessary_allocation"
        => optimize_unnecessary_allocation(op.res) = op.res

\* The symbols bound by a let anywhere in an expression.
RECURSIVE LetBound(_)
LetBound(e) ==
    (IF e.k \in {"Let", "LetClosure"} THEN {e.name} ELSE {})
    \cup UNION {LetBound(Children(e)[i]) : i \in 1..Len(Children(e))}

\* C20: the expression returned by optimize has no let-binding that is both
\* unused and pure, bindings introduced or rendered unused by the
\* interpreter included.
C20_NoUnusedPureBinding ==
    op.name = "optimize"
        => (LetBound(op.res) \cap purity(op.res).load) \subseteq used_bindings(op.res)

\* The pipeline without the interpreter: the allocation rewrite, then both
\* dead-code passes under the purity set of the rewritten expression.
FirstPass(e) == dead_code_elimination(used_bindings(e), purity(e), e)
SecondPass(allocated, e) ==
    dead_code_elimination(used_bindings(e), purity(allocated), e)
WithoutInterpreter(allocated) == SecondPass(allocated, FirstPass(allocated))

KnownGlobal(s, n) == n \in s.state.extern_globals \/ peek_global(s, n).some

GlobalOf(s, n) ==
    IF n \in s.state.extern_globals THEN get_extern_global(s, n).v
    ELSE peek_global(s, n).v

\* The longest dotted prefix of n that is a known global, or the empty name.
RECURSIVE LongestKnown(_, _)
LongestKnown(s, n) ==
    IF n = <<>> \/ KnownGlobal(s, n) THEN n ELSE LongestKnown(s, NameModule(n))

ScopedGlobalOf(s, n, prefix, res) ==
    IF prefix = <<>> THEN ~res.ok
    ELSE /\ res.ok
         /\ res.v = GlobalOf(s, prefix)
         /\ res.remaining = SubSeq(n, Len(prefix) + 2, Len(n))

\* C22: get_scoped_global returns the global of the longest dotted prefix
\* of the name, leading '@' aside, that is a known global, with exactly the
\* components after that prefix, and None when no prefix is a known global.
C22_ScopedGlobalIsLongestPrefix ==
    [][op'.name = "get_scoped_global"
          => ScopedGlobalOf(Db(op'.vm), TrimStartAt(op'.m),
                            LongestKnown(Db(op'.vm), TrimStartAt(op'.m)), op'.res)]_vars

\* What walking the fields from a global's type and value should give.
RECURSIVE FieldsOf(_, _, _, _)
FieldsOf(vm, typ, value, fields) ==
    IF fields = <<>> THEN Ok([value |-> root_value(vm, value), typ |-> typ])
    ELSE LET at == {k \in 1..Len(row_iter(typ)) : row_iter(typ)[k].name = Head(fields)}
         IN  IF at = {}
             THEN Err([kind |-> "UndefinedField", typ |-> typ, name |-> Head(fields)])
             ELSE FieldsOf(vm, row_iter(typ)[CHOOSE k \in at : TRUE].typ,
                           value.deps[CHOOSE k \in at : TRUE], Tail(fields))

BindingOf(s, name, n, prefix) ==
    IF prefix = <<>> THEN Err([kind |-> "UndefinedBinding", name |-> name])
    ELSE FieldsOf(s.vm, GlobalOf(s, prefix).typ, GlobalOf(s, prefix).value.val,
                  Components(SubSeq(n, Len(prefix) + 2, Len(n))))

\* C23: get_binding returns UndefinedBinding exactly when no prefix of the
\* name is a known global, UndefinedField at the first remaining component
\* that is not a field of the current record type, and otherwise the value
\* and type reached; the database, its cache included, is left unchanged.
C23_BindingOrError ==
    [][op'.name = "get_binding"
          => /\ op'.res = BindingOf(Db(op'.vm), op'.m, TrimStartAt(op'.m),
                                    LongestKnown(Db(op'.vm), TrimStartAt(op'.m)))
             /\ op'.execd = {}
             /\ UNCHANGED dbvars]_vars

\* add_module waits for its invalidation to be admitted, which needs the
\* snapshot gone, and holds the State mutex; the snapshot cannot finish its
\* read without the mutex.
Deadlocked ==
    /\ pc.root.at = "invalidate"
    /\ mutex = "t1"
    /\ readers # {}
    /\ pc.snap.at = "module_text"
    /\ NeedsState("t2", pc.snap.m)

\* C24: add_module on the root database and a snapshot that executes
\* module_text cannot deadlock.
C24_AddModuleCannotDeadlock == ~Deadlocked

\* C25: wherever the root database or a snapshot can look, a name in
\* State.extern_globals has its extern_global input set, and
\* get_extern_global never reads an input without a value.
C25_ExternGlobalsAreSet ==
    /\ (pc.root = Idle \/ readers # {})
          => \A n \in ExternNames : n \in state.extern_globals => xglobal[n].set
    /\ (op.name = "get_extern_global" /\ op.vm = "t2") => ~op.res.unset

\* The environment view exposes m's core expression and metadata.
Exposed(m) ==
    /\ Env_find_expr(Db("t1"), <<"@">> \o m).some
    /\ Env_get_metadata(Db("t1"), <<"@">> \o m).some

\* C26: once import(m) has returned successfully, Env::find_expr(@m) and
\* Env::get_metadata(@m) return m's core expression and metadata, and go on
\* doing so through every step that leaves m's text as it is.
C26_ImportedModuleStaysExposed ==
    [][\A m \in {ModA, ModB} :
          /\ (op'.name = "import" /\ op'.m = m /\ op'.res.ok) => Exposed(m)'
          /\ (Exposed(m) /\ TextOf(state, m) = TextOf(state', m)) => Exposed(m)']_vars

\* What global_inner(m) awaited and ran in the last host call, in order.
InnerSteps(m) ==
    SelectSeq(op.log,
              LAMBDA ev : /\ ev.e \in {"typechecked_module", "compiled_module",
                                       "call_thunk_top", "run_io", "extern_module"}
                          /\ ev.m = m)

Step(e, m, ok) == [e |-> e, m |-> m, ok |-> ok]

\* global(m) ran global_inner(m) in the last host call.
RanGlobalInner(m) ==
    /\ op.name = "global"
    /\ op.m = m
    /\ Key("global_inner", m) \in op.execd

C28_LoaderDecidesThePath ==
    \A m \in {ModA, ModB} :
        RanGlobalInner(m) =>
            IF loader[m].set
            THEN /\ Len(InnerSteps(m)) = 1
                 /\ InnerSteps(m)[1].e = "extern_module"
                 /\ Key("typechecked_module", m) \notin op.execd
                 /\ Key("compiled_module", m) \notin op.execd
            ELSE /\ \A i \in 1..Len(InnerSteps(m)) : InnerSteps(m)[i].e # "extern_module"
                 /\ Key("extern_module", m) \notin op.execd

\* b has a loader and an inline text, and its global comes from the loader.
C28_Witness ==
    /\ RanGlobalInner(ModB)
    /\ loader[ModB].set
    /\ state.inline_modules[ModB] # NoText
    /\ op.res.ok

\* The node e with its child expressions replaced by cs, everything else
\* as it was.
WithChildren(e, cs) ==
    CASE e.k \in {"Const", "Ident"} -> e
      [] e.k = "Data" -> [e EXCEPT !.args = cs]
      [] e.k = "Call" -> [e EXCEPT !.f = cs[1], !.args = SubSeq(cs, 2, Len(cs))]
      [] e.k = "Let" -> [e EXCEPT !.expr = cs[1], !.body = cs[2]]
      [] e.k = "LetClosure" -> [e EXCEPT !.fbody = cs[1], !.body = cs[2]]
      [] e.k = "Match" ->
            [e EXCEPT !.scrut = cs[1],
                      !.alts = [i \in 1..Len(e.alts) |->
                                   [e.alts[i] EXCEPT !.expr = cs[i + 1]]]]
      [] e.k = "Cast" -> [e EXCEPT !.expr = cs[1]]

\* What the visitor returns for the i-th child of e.
Visited(e, i) == visit_expr(Children(e)[i])

RECURSIVE HasDestructuring(_)
HasDestructuring(e) ==
    \/ /\ e.k = "Match"
       /\ e.scrut.k = "Data"
       /\ Len(e.alts) = 1
       /\ e.alts[1].pattern.p = "Record"
    \/ \E i \in 1..Len(Children(e)) : HasDestructuring(Children(e)[i])

\* C30: the expression returned by optimize_unnecessary_allocation holds no
\* record literal that a single record alternative destructures, wherever it
\* stood in the input.
C30_NoDestructuringRemains ==
    op.name = "optimize_unnecessary_allocation" => ~HasDestructuring(op.res)

\* C31: DifferentLifetime::produce returns a copy structurally equal to its
\* input for every core expression, with recursive bindings of any length,
\* and never fails on an unwrap; SameLifetime::produce returns its input.
C31_ProducersCopy ==
    /\ op.name = "DifferentLifetime::produce" => op.res = op.arg
    /\ op.name = "SameLifetime::produce" => op.res = op.arg

\* C32: the host only calls add_module (and queries): every module with an
\* inline entry has a file map registered under its name whose source is the
\* module's current inline text, and every index_map entry refers to a file
\* of code_map with that name.
C32_FileMapsFollowInlineTexts ==
    \A m \in Modules :
        /\ state.inline_modules[m] # NoText =>
              /\ State_get_filemap(state, m) # NoFile
              /\ State_get_filemap(state, m).name = m
              /\ State_get_filemap(state, m).src = state.inline_modules[m]
        /\ state.index_map[m] # 0 =>
              /\ state.index_map[m] \in 1..Len(state.code_map)
              /\ state.code_map[state.index_map[m]].name = m

\* a was added and added again with another text while b has an inline text:
\* code_map holds both file maps of a and index_map refers to the second.
C32_Witness ==
    /\ op.name = "add_module"
    /\ op.m = ModA
    /\ op.arg = Lit(2)
    /\ \E i \in 1..Len(state.code_map) :
          /\ state.code_map[i] = [name |-> ModA, src |-> Lit(1)]
          /\ i < state.index_map[ModA]
    /\ state.inline_modules[ModB] # NoText

====
